---- MODULE Spec2Model ----
(***************************************************************************)
(* Verification model of the Pylon SDK core: the webhook trust boundary    *)
(* (src/pylon/webhooks/handler.py), the HTTP transports (src/pylon/_http.py)*)
(* and the legacy client's request loop and paginator (pylonlib/client.py).*)
(*                                                                         *)
(* Byte strings and text are sequences of lexical chunks: a decimal        *)
(* numeral, a dot, a blank, the text of a JSON object, other ASCII text,   *)
(* bytes that are not UTF-8.  Two byte strings are equal iff their chunk   *)
(* sequences are equal (no enumerated string has two adjacent numerals).   *)
(* HMAC-SHA256 is the ideal MAC: distinct (key, message) pairs have        *)
(* distinct digests.                                                       *)
(***************************************************************************)
EXTENDS Integers, Sequences, FiniteSets, TLC

VARIABLES
    secret,                \* WebhookHandler._secret
    timestamp_tolerance,   \* WebhookHandler._timestamp_tolerance
    verify_enabled,        \* WebhookHandler._verify_signature
    handlers,              \* WebhookHandler._handlers: event type -> list of handlers
    catch_all_handlers,    \* WebhookHandler._catch_all_handlers
    now,                   \* int(time.time())
    call,                  \* the last webhook operation: its inputs and what it did
    max_retries,           \* BaseHTTPTransport.max_retries
    syncCall,              \* the last SyncHTTPTransport.request: script, attempts, outcome
    asyncCall,             \* the last AsyncHTTPTransport.arequest
    legacyCall,            \* the last PylonClient._make_request
    caller_params,         \* the params argument of PylonClient._paginate, the caller's dict
    provider,              \* what the API answers to the successive page requests
    delay,                 \* the delay argument of PylonClient._paginate
    gen,                   \* the frame of the generator PylonClient._paginate returned
    trace,                 \* what the generator did so far: requests, sleeps, yields
    threads,               \* the frames of the concurrent calls of WebhookHandler.handle
    wire,                  \* the webhook request a sender signed, and when
    deliveries             \* the handle calls made with that request, in order

vars == <<secret, timestamp_tolerance, verify_enabled, handlers, catch_all_handlers,
          now, call, max_retries, syncCall, asyncCall, legacyCall,
          caller_params, provider, delay, gen, trace, threads, wire, deliveries>>

webhookVars == <<secret, timestamp_tolerance, verify_enabled, handlers,
                 catch_all_handlers, now, call>>

httpVars == <<max_retries, syncCall, asyncCall, legacyCall>>

pageVars == <<caller_params, provider, delay, gen, trace>>

replayVars == <<wire, deliveries>>

-----------------------------------------------------------------------------
(* Bounds *)

MaxTolerance == 2
MaxTicks == 1
MaxHandlers == 2
Now0 == 10
MaxRetries == 2
MaxFirst == 1
MaxFirstPages == 2
MaxRequests == 4
MaxDeliveries == 2

-----------------------------------------------------------------------------
(* Text and bytes *)

Num(k) == [t |-> "num", n |-> k, ev |-> "", full |-> FALSE]
Dot == [t |-> "dot", n |-> 0, ev |-> "", full |-> FALSE]
Sp == [t |-> "sp", n |-> 0, ev |-> "", full |-> FALSE]
Text == [t |-> "text", n |-> 0, ev |-> "", full |-> FALSE]
BadUtf8 == [t |-> "bad", n |-> 0, ev |-> "", full |-> FALSE]
\* The text of a JSON object whose "event_type" member is ev ("" when the member
\* is absent) and that carries every other required field of the variant iff full.
Obj(ev, full) == [t |-> "obj", n |-> 0, ev |-> ev, full |-> full]

\* str | None
None == [isNone |-> TRUE, s |-> <<>>]
Str(s) == [isNone |-> FALSE, s |-> s]
Truthy(v) == ~v.isNone /\ v.s # <<>>

RECURSIVE Strip(_)
Strip(s) ==
    IF s = <<>> THEN s
    ELSE IF Head(s).t = "sp" THEN Strip(Tail(s))
    ELSE IF s[Len(s)].t = "sp" THEN Strip(SubSeq(s, 1, Len(s) - 1))
    ELSE s

\* int(timestamp): surrounding blanks are accepted, anything else than one numeral
\* raises ValueError.
IntParse(s) ==
    LET b == Strip(s)
    IN  IF Len(b) = 1 /\ b[1].t = "num"
        THEN [ok |-> TRUE, v |-> b[1].n]
        ELSE [ok |-> FALSE, v |-> 0]

-----------------------------------------------------------------------------
(* Signatures *)

\* hmac.new(key, msg, sha256): the ideal MAC, injective in (key, msg).
Hmac(key, msg) == [key |-> key, msg |-> msg]

\* A signature string: the lowercase hex digest of a MAC ("hex"), the same digits
\* in upper case ("HEX"), some other ASCII string ("junk"), a string with a
\* non-ASCII character ("nonascii"), the empty string ("empty"), or no string at
\* all ("None").
SigStr(t, mac) == [t |-> t, key |-> mac.key, msg |-> mac.msg]
NoMac == [key |-> "", msg |-> <<>>]
SigNone == SigStr("None", NoMac)
SigEmpty == SigStr("empty", NoMac)
SigJunk == SigStr("junk", NoMac)
SigNonAscii == SigStr("nonascii", NoMac)
SigTruthy(sig) == sig.t \notin {"None", "empty"}

\* .hexdigest()
HexDigest(mac) == SigStr("hex", mac)

\* A mutant of compare_digest that stops at the key and never looks at the message.
CompareDigestKeyOnly(a, b) ==
    IF a.t = "nonascii" \/ b.t = "nonascii"
    THEN [exc |-> "TypeError", eq |-> FALSE]
    ELSE [exc |-> "", eq |-> (a.t = b.t /\ a.key = b.key)]

\* hmac.compare_digest(a, b) on two str: TypeError unless both are ASCII.
CompareDigest(a, b) ==
    IF a.t = "nonascii" \/ b.t = "nonascii"
    THEN [exc |-> "TypeError", eq |-> FALSE]
    ELSE [exc |-> "", eq |-> (a = b)]

-----------------------------------------------------------------------------
(* WebhookHandler: verification *)

Step(name) == [step |-> name, h |-> ""]
Invoke(h) == [step |-> "handler", h |-> h]

Passed == [exc |-> "", msg |-> ""]
Raise(exc, msg) == [exc |-> exc, msg |-> msg]

\* A mutant of _validate_timestamp whose window excludes its two ends.
ValidateTimestampStrict(tol, nowv, timestamp) ==
    LET parsed == IntParse(timestamp)
        age == nowv - parsed.v
    IN  IF ~parsed.ok THEN Raise("PylonWebhookTimestampError", "Invalid webhook timestamp format")
        ELSE IF age >= tol THEN Raise("PylonWebhookTimestampError", "too old")
        ELSE IF age <= -tol THEN Raise("PylonWebhookTimestampError", "in the future")
        ELSE Passed

\* WebhookHandler._validate_timestamp(timestamp) at time nowv, tolerance tol.
ValidateTimestamp(tol, nowv, timestamp) ==
    LET parsed == IntParse(timestamp)
        age == nowv - parsed.v
    IN  IF ~parsed.ok THEN Raise("PylonWebhookTimestampError", "Invalid webhook timestamp format")
        ELSE IF age > tol THEN Raise("PylonWebhookTimestampError", "too old")
        ELSE IF age < -tol THEN Raise("PylonWebhookTimestampError", "in the future")
        ELSE Passed

\* f"{timestamp}.".encode() + payload if timestamp else payload
SignedPayload(payload, timestamp) ==
    IF Truthy(timestamp) THEN timestamp.s \o <<Dot>> \o payload ELSE payload

\* A mutant of verify_signature that compares the signature first and looks at
\* the timestamp afterwards.
VerifySignatureSigFirst(sec, tol, nowv, payload, signature, timestamp) ==
    LET tsr == IF Truthy(timestamp) THEN ValidateTimestamp(tol, nowv, timestamp.s) ELSE Passed
        tslog == IF Truthy(timestamp) THEN <<Step("_validate_timestamp")>> ELSE <<>>
        expected_sig == HexDigest(Hmac(sec, SignedPayload(payload, timestamp)))
        cmp == CompareDigest(expected_sig, signature)
        siglog == <<Step("hmac"), Step("compare_digest")>>
    IN  IF cmp.exc # "" THEN [log |-> siglog, exc |-> cmp.exc, msg |-> ""]
        ELSE IF ~cmp.eq
             THEN [log |-> siglog, exc |-> "PylonWebhookSignatureError",
                   msg |-> "signature mismatch"]
        ELSE [log |-> siglog \o tslog, exc |-> tsr.exc, msg |-> tsr.msg]

\* A mutant of verify_signature that insists on a timestamp.
VerifySignatureNeedsTimestamp(sec, tol, nowv, payload, signature, timestamp) ==
    LET tsr == IF Truthy(timestamp) THEN ValidateTimestamp(tol, nowv, timestamp.s)
               ELSE Raise("PylonWebhookTimestampError", "Missing webhook timestamp")
        tslog == IF Truthy(timestamp) THEN <<Step("_validate_timestamp")>> ELSE <<>>
        expected_sig == HexDigest(Hmac(sec, SignedPayload(payload, timestamp)))
        cmp == CompareDigest(expected_sig, signature)
        siglog == tslog \o <<Step("hmac"), Step("compare_digest")>>
    IN  IF tsr.exc # "" THEN [log |-> tslog, exc |-> tsr.exc, msg |-> tsr.msg]
        ELSE IF cmp.exc # "" THEN [log |-> siglog, exc |-> cmp.exc, msg |-> ""]
        ELSE IF ~cmp.eq
             THEN [log |-> siglog, exc |-> "PylonWebhookSignatureError",
                   msg |-> "signature mismatch"]
        ELSE [log |-> siglog, exc |-> "", msg |-> ""]

\* WebhookHandler.verify_signature(payload, signature, timestamp): the steps it
\* performs and how it ends.
VerifySignature(sec, tol, nowv, payload, signature, timestamp) ==
    LET tsr == IF Truthy(timestamp) THEN ValidateTimestamp(tol, nowv, timestamp.s) ELSE Passed
        tslog == IF Truthy(timestamp) THEN <<Step("_validate_timestamp")>> ELSE <<>>
        expected_sig == HexDigest(Hmac(sec, SignedPayload(payload, timestamp)))
        cmp == CompareDigest(expected_sig, signature)
        siglog == tslog \o <<Step("hmac"), Step("compare_digest")>>
    IN  IF tsr.exc # "" THEN [log |-> tslog, exc |-> tsr.exc, msg |-> tsr.msg]
        ELSE IF cmp.exc # "" THEN [log |-> siglog, exc |-> cmp.exc, msg |-> ""]
        ELSE IF ~cmp.eq
             THEN [log |-> siglog, exc |-> "PylonWebhookSignatureError",
                   msg |-> "signature mismatch"]
        ELSE [log |-> siglog, exc |-> "", msg |-> ""]

-----------------------------------------------------------------------------
(* WebhookHandler: decoding and dispatch *)

DeclaredTags == {"issue_new", "issue_assigned", "issue_field_changed",
                 "issue_status_changed", "issue_tags_changed", "issue_reaction",
                 "issue_message_new"}

\* json.loads(payload_bytes)
JsonLoads(b) ==
    LET c == Strip(b)
        fail(e) == [exc |-> e, kind |-> "", ev |-> "", full |-> FALSE]
    IN  IF \E i \in 1..Len(b) : b[i].t = "bad" THEN fail("UnicodeDecodeError")
        ELSE IF Len(c) = 1 /\ c[1].t = "obj"
             THEN [exc |-> "", kind |-> "dict", ev |-> c[1].ev, full |-> c[1].full]
        ELSE IF Len(c) = 1 /\ c[1].t = "num"
             THEN [exc |-> "", kind |-> "number", ev |-> "", full |-> FALSE]
        ELSE IF Len(c) = 3 /\ c[1].t = "num" /\ c[2].t = "dot" /\ c[3].t = "num" /\ c[3].n >= 0
             THEN [exc |-> "", kind |-> "number", ev |-> "", full |-> FALSE]
        ELSE fail("JSONDecodeError")

\* A mutant of parse_webhook_event that accepts any event_type.
ParseWebhookEventLenient(v) ==
    IF v.kind = "dict" /\ v.full
    THEN [exc |-> "", event |-> [event_type |-> v.ev]]
    ELSE [exc |-> "ValidationError", event |-> [event_type |-> ""]]

\* parse_webhook_event(payload): the discriminated union over event_type.
ParseWebhookEvent(v) ==
    IF v.kind = "dict" /\ v.ev \in DeclaredTags /\ v.full
    THEN [exc |-> "", event |-> [event_type |-> v.ev]]
    ELSE [exc |-> "ValidationError", event |-> [event_type |-> ""]]

\* The registered callables.  h1 always returns; h2 returns except on message
\* events, where it raises.
HandlerIds == {"h1", "h2"}
HandlerResult(h, event) ==
    [raised |-> (h = "h2" /\ event.event_type = "issue_message_new"),
     value |-> [by |-> h, ev |-> event.event_type]]

\* A mutant of the loop that goes on to the next handler when one raises.
RECURSIVE RunHandlersContinue(_, _, _)
RunHandlersContinue(hs, event, acc) ==
    IF hs = <<>> THEN acc
    ELSE LET r == HandlerResult(Head(hs), event)
             log == Append(acc.log, Invoke(Head(hs)))
         IN  RunHandlersContinue(Tail(hs), event,
                 [log |-> log, exc |-> "",
                  results |-> IF r.raised THEN acc.results
                              ELSE Append(acc.results, r.value)])

\* for handler_func in hs: result = handler_func(event); results.append(result)
RECURSIVE RunHandlers(_, _, _)
RunHandlers(hs, event, acc) ==
    IF hs = <<>> THEN acc
    ELSE LET r == HandlerResult(Head(hs), event)
             log == Append(acc.log, Invoke(Head(hs)))
         IN  IF r.raised
             THEN [log |-> log, exc |-> "HandlerError", results |-> acc.results]
             ELSE RunHandlers(Tail(hs), event,
                      [log |-> log, exc |-> "", results |-> Append(acc.results, r.value)])

\* handler.py lines 274-289: a mutant that runs the catch-all handlers first.
DispatchCatchAllFirst(hmap, catchall, event) ==
    LET start == [log |-> <<>>, exc |-> "", results |-> <<>>]
        first == RunHandlers(catchall, event, start)
    IN  IF first.exc # "" \/ event.event_type \notin DOMAIN hmap THEN first
        ELSE RunHandlers(hmap[event.event_type], event, first)

\* handler.py lines 274-289: type-specific handlers, then catch-all handlers.
Dispatch(hmap, catchall, event) ==
    LET start == [log |-> <<>>, exc |-> "", results |-> <<>>]
        specific == IF event.event_type \in DOMAIN hmap
                    THEN RunHandlers(hmap[event.event_type], event, start)
                    ELSE start
    IN  IF specific.exc # "" THEN specific
        ELSE RunHandlers(catchall, event, specific)

\* headers.get(name)
SigGet(headers, name) == IF name \in DOMAIN headers THEN headers[name] ELSE SigNone
TsGet(headers, name) == IF name \in DOMAIN headers THEN headers[name] ELSE None

\* a or b or c or d: the first truthy operand, else the last one.
OrSig(a, b, c, d) ==
    IF SigTruthy(a) THEN a ELSE IF SigTruthy(b) THEN b ELSE IF SigTruthy(c) THEN c ELSE d
OrTs(a, b, c, d) ==
    IF Truthy(a) THEN a ELSE IF Truthy(b) THEN b ELSE IF Truthy(c) THEN c ELSE d

ExtractSignature(headers) ==
    OrSig(SigGet(headers, "X-Pylon-Signature"), SigGet(headers, "x-pylon-signature"),
          SigGet(headers, "X-Signature"), SigGet(headers, "x-signature"))
ExtractTimestamp(headers) ==
    OrTs(TsGet(headers, "X-Pylon-Timestamp"), TsGet(headers, "x-pylon-timestamp"),
         TsGet(headers, "X-Timestamp"), TsGet(headers, "x-timestamp"))

\* handler.py lines 257-263: a mutant that has lost the missing-signature guard.
VerifyIfEnabledNoGuard(sec, tol, verify, nowv, payload, signature, timestamp) ==
    IF verify
    THEN VerifySignature(sec, tol, nowv, payload, signature, timestamp)
    ELSE [log |-> <<>>, exc |-> "", msg |-> ""]

\* handler.py lines 257-263: a mutant that checks the signature but goes on
\* whatever the check says.
VerifyIfEnabledSwallow(sec, tol, verify, nowv, payload, signature, timestamp) ==
    [log |-> IF verify /\ SigTruthy(signature)
             THEN VerifySignature(sec, tol, nowv, payload, signature, timestamp).log
             ELSE <<>>,
     exc |-> "", msg |-> ""]

\* handler.py lines 257-263: a mutant that verifies whatever the flag says.
VerifyIfEnabledAlways(sec, tol, verify, nowv, payload, signature, timestamp) ==
    IF ~SigTruthy(signature)
    THEN [log |-> <<>>, exc |-> "PylonWebhookSignatureError",
          msg |-> "Missing webhook signature header"]
    ELSE VerifySignature(sec, tol, nowv, payload, signature, timestamp)

\* handler.py lines 257-263: "if self._verify_signature: ..."
VerifyIfEnabled(sec, tol, verify, nowv, payload, signature, timestamp) ==
    IF verify
    THEN IF ~SigTruthy(signature)
         THEN [log |-> <<>>, exc |-> "PylonWebhookSignatureError",
               msg |-> "Missing webhook signature header"]
         ELSE VerifySignature(sec, tol, nowv, payload, signature, timestamp)
    ELSE [log |-> <<>>, exc |-> "", msg |-> ""]

\* WebhookHandler.handle(payload, headers) on a handler with the given
\* configuration and registry, at time nowv.
Handle(sec, tol, verify, hmap, catchall, nowv, payload, headers) ==
    LET signature == ExtractSignature(headers)
        timestamp == ExtractTimestamp(headers)
        raised(log, exc, msg) == [log |-> log, exc |-> exc, msg |-> msg, results |-> <<>>]
        ver == VerifyIfEnabled(sec, tol, verify, nowv, payload, signature, timestamp)
        payload_dict == JsonLoads(payload)
        log1 == Append(ver.log, Step("json.loads"))
        parsed == ParseWebhookEvent(payload_dict)
        log2 == Append(log1, Step("parse_webhook_event"))
        d == Dispatch(hmap, catchall, parsed.event)
    IN  IF ver.exc # "" THEN raised(ver.log, ver.exc, ver.msg)
        ELSE IF payload_dict.exc = "JSONDecodeError"
             THEN raised(log1, "PylonWebhookError", "Invalid JSON payload")
        ELSE IF payload_dict.exc # "" THEN raised(log1, payload_dict.exc, "")
        ELSE IF parsed.exc # "" THEN raised(log2, parsed.exc, "")
        ELSE IF d.exc # "" THEN raised(log2 \o d.log, d.exc, "")
        ELSE [log |-> log2 \o d.log, exc |-> "", msg |-> "", results |-> d.results]

-----------------------------------------------------------------------------
(* HTTP: responses and error classification *)

DEFAULT_MAX_RETRIES == 3

\* A response body: its raw text, what response.json() makes of it ("fail" when
\* the text is no JSON, "object", or "array" for JSON that is no object), and the
\* "message" and "errors" members of the object.
Body(text, json, hasMessage, hasErrors) ==
    [text |-> text, json |-> json, hasMessage |-> hasMessage, hasErrors |-> hasErrors]
BodyEmpty == Body("", "fail", FALSE, FALSE)
BodyText == Body("gateway down", "fail", FALSE, FALSE)
BodyMessage == Body("{message}", "object", TRUE, FALSE)
BodyErrors == Body("{errors}", "object", FALSE, TRUE)
BodyMessageErrors == Body("{message,errors}", "object", TRUE, TRUE)
BodyNested == Body("{error:{message}}", "object", FALSE, FALSE)
BodyArray == Body("[1]", "array", FALSE, FALSE)
BodyData == Body("{data}", "object", FALSE, FALSE)

\* What the server answers to one attempt: a response, or no response at all
\* (net names the exception httpx or requests raises).
Response(status, body, retry_after) ==
    [net |-> "", status |-> status, body |-> body, retry_after |-> retry_after]
NetFailure(exc) ==
    [net |-> exc, status |-> 0, body |-> BodyEmpty, retry_after |-> None]

\* The message of an error: a text, or "HTTP <status>".
Msg(text) == [text |-> text, code |-> 0]
HttpMsg(status) == [text |-> "HTTP", code |-> status]
MessageMember(body) == Msg("the message member")
ErrorsMember(body) == "the errors member"

\* How one call ends.  status is the status_code the code passes to the error
\* (0 when it leaves the class default); retry_after and errors likewise.
Outcome(exc, status, message, retry_after, errors, value) ==
    [exc |-> exc, status |-> status, message |-> message, retry_after |-> retry_after,
     errors |-> errors, value |-> value]
NoInt == [isNone |-> TRUE, v |-> 0]
SomeInt(v) == [isNone |-> FALSE, v |-> v]
Returned(value) == Outcome("", 0, Msg(""), NoInt, "", value)
Raised(exc) == Outcome(exc, 0, Msg(""), NoInt, "", "")

\* response.is_success
IsSuccess(status) == 200 <= status /\ status <= 299

\* _http.py lines 107-111: the message of the error.
ErrorMessage(r) ==
    IF r.body.json = "object" /\ r.body.hasMessage THEN MessageMember(r.body)
    ELSE IF r.body.json = "object" THEN Msg(r.body.text)
    ELSE IF r.body.text # "" THEN Msg(r.body.text)
    ELSE HttpMsg(r.status)

\* PylonValidationError(errors=...): a missing error list is stored as the empty
\* list.
ValidationErrors(errors) == IF errors = "None" THEN "[]" ELSE errors

\* BaseHTTPTransport._handle_response_errors(response): the exception it raises
\* ("" when it returns).
HandleResponseErrors(r) ==
    LET message == ErrorMessage(r)
        retry_after == r.retry_after
    IN  IF IsSuccess(r.status) THEN Raised("")
        ELSE IF r.status = 401
             THEN Outcome("PylonAuthenticationError", 0, message, NoInt, "", "")
        ELSE IF r.status = 404
             THEN Outcome("PylonNotFoundError", 0, message, NoInt, "", "")
        ELSE IF r.status = 429
             THEN IF ~Truthy(retry_after)
                  THEN Outcome("PylonRateLimitError", 0, message, NoInt, "", "")
                  ELSE IF IntParse(retry_after.s).ok
                       THEN Outcome("PylonRateLimitError", 0, message,
                                    SomeInt(IntParse(retry_after.s).v), "", "")
                       ELSE Raised("ValueError")
        ELSE IF r.status \in {400, 422}
             THEN IF r.body.json = "fail"
                  THEN Outcome("PylonValidationError", 0, message, NoInt,
                               ValidationErrors("None"), "")
                  ELSE IF r.body.json = "object"
                       THEN Outcome("PylonValidationError", 0, message, NoInt,
                                    ValidationErrors(IF r.body.hasErrors
                                                     THEN ErrorsMember(r.body)
                                                     ELSE "None"), "")
                       ELSE Raised("AttributeError")
        ELSE IF r.status >= 500
             THEN Outcome("PylonServerError", r.status, message, NoInt, "", "")
        ELSE Outcome("PylonAPIError", r.status, message, NoInt, "", "")

-----------------------------------------------------------------------------
(* HTTP: the transports *)

\* The server's behaviour during one call: its answers to the first attempts,
\* then the same answer to every further attempt.
Script(first, then) == [first |-> first, then |-> then]
ReplyAt(script, i) == IF i <= Len(script.first) THEN script.first[i] ELSE script.then

Ended(op, script, attempts, outcome) ==
    [op |-> op, script |-> script, attempts |-> attempts, outcome |-> outcome]

\* response.json() of a successful response
ResponseJson(r) == IF r.body.json = "fail" THEN Raised("JSONDecodeError")
                   ELSE Returned(r.body.text)

\* SyncHTTPTransport.request: the number of attempts and the outcome.
SyncRequest(maxr, script) ==
    LET response == ReplyAt(script, 1)
        err == HandleResponseErrors(response)
    IN  IF response.net # "" THEN [attempts |-> 1, outcome |-> Raised(response.net)]
        ELSE IF err.exc # "" THEN [attempts |-> 1, outcome |-> err]
        ELSE [attempts |-> 1, outcome |-> ResponseJson(response)]

\* A mutant of arequest that tries again, up to max_retries times, after a 429.
RECURSIVE ARequestRetrying(_, _)
ARequestRetrying(maxr, script) ==
    LET response == ReplyAt(script, 1)
        err == HandleResponseErrors(response)
        rest == IF script.first = <<>> THEN <<>> ELSE Tail(script.first)
        again == ARequestRetrying(maxr - 1, Script(rest, script.then))
    IN  IF response.net # "" THEN [attempts |-> 1, outcome |-> Raised(response.net)]
        ELSE IF err.exc = "PylonRateLimitError" /\ maxr > 0
             THEN [attempts |-> again.attempts + 1, outcome |-> again.outcome]
        ELSE IF err.exc # "" THEN [attempts |-> 1, outcome |-> err]
        ELSE [attempts |-> 1, outcome |-> ResponseJson(response)]

\* AsyncHTTPTransport.arequest: the number of attempts and the outcome.
ARequest(maxr, script) ==
    LET response == ReplyAt(script, 1)
        err == HandleResponseErrors(response)
    IN  IF response.net # "" THEN [attempts |-> 1, outcome |-> Raised(response.net)]
        ELSE IF err.exc # "" THEN [attempts |-> 1, outcome |-> err]
        ELSE [attempts |-> 1, outcome |-> ResponseJson(response)]

\* stop_after_attempt(5) of PylonClient._make_request
StopAfterAttempt == 5

\* One attempt of PylonClient._make_request (client.py lines 121-142).
LegacyAttempt(r) ==
    IF r.net # "" THEN Raised("RequestException")
    ELSE IF r.status = 429
         THEN Outcome("client.PylonRateLimitError", 0, Msg(r.body.text), NoInt, "", "")
    ELSE IF r.status # 200
         THEN Outcome("client.PylonAPIError", r.status, Msg(r.body.text), NoInt, "", "")
    ELSE ResponseJson(r)

\* PylonClient._make_request under its @retry decorator, from attempt i on.
RECURSIVE MakeRequest(_, _)
MakeRequest(script, i) ==
    LET o == LegacyAttempt(ReplyAt(script, i))
    IN  IF o.exc \in {"RequestException", "client.PylonRateLimitError"}
        THEN IF i >= StopAfterAttempt
             THEN [attempts |-> i, outcome |-> Raised("RetryError")]
             ELSE MakeRequest(script, i + 1)
        ELSE [attempts |-> i, outcome |-> o]

\* A body whose text contains the digits 404
BodyMentions404 == Body("no route 404", "fail", FALSE, FALSE)
\* "404" in text
Has404(text) == text \in {"no route 404"}

\* data = response.get("data", response); PylonIssue.from_pylon_dict(data)
ParseIssue(value) ==
    IF value = BodyData.text THEN Returned("PylonIssue")
    ELSE IF value = BodyArray.text THEN Raised("AttributeError")
    ELSE Raised("ValidationError")

\* BaseSyncResource._get(endpoint): a GET through the transport
ResourceGet(maxr, script) == SyncRequest(maxr, script)

\* IssuesResource.get(issue_id)
IssuesGet(maxr, script) ==
    LET r == ResourceGet(maxr, script)
    IN  IF r.outcome.exc # "" THEN r
        ELSE [attempts |-> r.attempts, outcome |-> ParseIssue(r.outcome.value)]

\* IssuesResource.get_by_number(number)
GetByNumber(maxr, script) ==
    LET r == IssuesGet(maxr, script)
    IN  IF r.outcome.exc = "PylonNotFoundError"
        THEN [attempts |-> r.attempts, outcome |-> Returned("None")]
        ELSE r

\* str(e) of the PylonAPIError of _make_request contains "404":
\* "Pylon API error <status>: <response.text>"
ErrorTextHas404(o) == o.status = 404 \/ Has404(o.message.text)

\* PylonClient.get_issue_by_number(number)
GetIssueByNumber(script) ==
    LET r == MakeRequest(script, 1)
    IN  IF r.outcome.exc = ""
        THEN [attempts |-> r.attempts, outcome |-> ParseIssue(r.outcome.value)]
        ELSE IF r.outcome.exc \in {"client.PylonAPIError", "client.PylonRateLimitError"}
                  /\ ErrorTextHas404(r.outcome)
             THEN [attempts |-> r.attempts, outcome |-> Returned("None")]
        ELSE r

-----------------------------------------------------------------------------
(* WebhookHandler: state machine *)

Secret == "whsec_test"
OtherSecret == "whsec_other"
Tolerances == 0..MaxTolerance
EventTypes == {"issue_new", "issue_message_new"}
NoHeaders == [n \in {} |-> None]

NoCall ==
    [op |-> "none", payload |-> <<>>, signature |-> SigNone, timestamp |-> None,
     headers |-> NoHeaders, at |-> 0, log |-> <<>>, exc |-> "", msg |-> "",
     results |-> <<>>]
\* call holds the last verification or handle call made since the registry last
\* changed; a registration clears it.

\* WebhookHandler.__init__
InitWebhook(tols, verifies) ==
    /\ secret = Secret
    /\ timestamp_tolerance \in tols
    /\ verify_enabled \in verifies
    /\ handlers = [t \in {} |-> <<>>]
    /\ catch_all_handlers = <<>>
    /\ now = Now0
    /\ call = NoCall

Registered ==
    LET RECURSIVE Sum(_)
        Sum(ts) == IF ts = {} THEN 0
                   ELSE LET t == CHOOSE x \in ts : TRUE
                        IN  Len(handlers[t]) + Sum(ts \ {t})
    IN  Sum(DOMAIN handlers) + Len(catch_all_handlers)

\* handler.py lines 115-118, the decorator of on(event_type): a first handler of
\* the type creates its list, func is appended to the list.
RegisterForFirst(hmap, event_type, func) ==
    [t \in DOMAIN hmap \cup {event_type} |->
        IF t = event_type
        THEN <<func>> \o (IF t \in DOMAIN hmap THEN hmap[t] ELSE <<>>)
        ELSE hmap[t]]
RegisterFor(hmap, event_type, func) ==
    [t \in DOMAIN hmap \cup {event_type} |->
        IF t = event_type
        THEN Append(IF t \in DOMAIN hmap THEN hmap[t] ELSE <<>>, func)
        ELSE hmap[t]]

\* WebhookHandler.registered_event_types: the keys of _handlers (as a set)
RegisteredEventTypes(hmap) == DOMAIN hmap

\* WebhookHandler.on(event_type)(func)
On(event_type, func) ==
    /\ Registered < MaxHandlers
    /\ handlers' = RegisterFor(handlers, event_type, func)
    /\ call' = NoCall
    /\ UNCHANGED <<secret, timestamp_tolerance, verify_enabled, catch_all_handlers, now>>
    /\ UNCHANGED httpVars
    /\ UNCHANGED pageVars
    /\ UNCHANGED replayVars
    /\ UNCHANGED threads

\* WebhookHandler.on_any()(func)
OnAny(func) ==
    /\ Registered < MaxHandlers
    /\ catch_all_handlers' = Append(catch_all_handlers, func)
    /\ call' = NoCall
    /\ UNCHANGED <<secret, timestamp_tolerance, verify_enabled, handlers, now>>
    /\ UNCHANGED httpVars
    /\ UNCHANGED pageVars
    /\ UNCHANGED replayVars
    /\ UNCHANGED threads

\* The clock advances.
Tick ==
    /\ now < Now0 + MaxTicks
    /\ now' = now + 1
    /\ UNCHANGED <<secret, timestamp_tolerance, verify_enabled, handlers,
                   catch_all_handlers, call>>
    /\ UNCHANGED httpVars
    /\ UNCHANGED pageVars
    /\ UNCHANGED replayVars
    /\ UNCHANGED threads

\* A call of handle(payload, headers).
HandleCall(payload, headers) ==
    LET r == Handle(secret, timestamp_tolerance, verify_enabled, handlers,
                    catch_all_handlers, now, payload, headers)
    IN  /\ call' = [op |-> "handle", payload |-> payload,
                    signature |-> ExtractSignature(headers),
                    timestamp |-> ExtractTimestamp(headers),
                    headers |-> headers, at |-> now, log |-> r.log, exc |-> r.exc,
                    msg |-> r.msg, results |-> r.results]
        /\ UNCHANGED <<secret, timestamp_tolerance, verify_enabled, handlers,
                       catch_all_handlers, now>>
        /\ UNCHANGED httpVars
        /\ UNCHANGED pageVars
        /\ UNCHANGED replayVars
        /\ UNCHANGED threads

\* A direct call of verify_signature(payload, signature, timestamp).
VerifySignatureCall(payload, signature, timestamp) ==
    LET r == VerifySignature(secret, timestamp_tolerance, now, payload, signature, timestamp)
    IN  /\ call' = [op |-> "verify_signature", payload |-> payload,
                    signature |-> signature, timestamp |-> timestamp,
                    headers |-> NoHeaders, at |-> now, log |-> r.log, exc |-> r.exc,
                    msg |-> r.msg, results |-> <<>>]
        /\ UNCHANGED <<secret, timestamp_tolerance, verify_enabled, handlers,
                       catch_all_handlers, now>>
        /\ UNCHANGED httpVars
        /\ UNCHANGED pageVars
        /\ UNCHANGED replayVars
        /\ UNCHANGED threads

\* A direct call of _validate_timestamp(timestamp).
ValidateTimestampCall(timestamp) ==
    LET r == ValidateTimestamp(timestamp_tolerance, now, timestamp)
    IN  /\ call' = [op |-> "_validate_timestamp", payload |-> <<>>,
                    signature |-> SigNone, timestamp |-> Str(timestamp),
                    headers |-> NoHeaders, at |-> now, log |-> <<>>, exc |-> r.exc,
                    msg |-> r.msg, results |-> <<>>]
        /\ UNCHANGED <<secret, timestamp_tolerance, verify_enabled, handlers,
                       catch_all_handlers, now>>
        /\ UNCHANGED httpVars
        /\ UNCHANGED pageVars
        /\ UNCHANGED replayVars
        /\ UNCHANGED threads

-----------------------------------------------------------------------------
(* Inputs *)

IssueNew == <<Obj("issue_new", TRUE)>>
MessageNew == <<Obj("issue_message_new", TRUE)>>

\* Request bodies: two declared events, an event lacking a required field, text
\* that is not JSON.
HandlePayloads == {IssueNew, MessageNew, <<Obj("issue_new", FALSE)>>, <<Text>>}

\* Timestamp strings around the tolerance window at the current time, the
\* empty string, and a non-numeric one.
TimestampsAt(nowv, tol) ==
    {Str(<<Num(nowv + d)>>) : d \in {-tol - 1, -tol, 0, tol, tol + 1}}
      \cup {Str(<<>>), Str(<<Text>>), Str(<<Sp, Num(nowv)>>)}

\* Signature strings for a request: the right digest, the digest of the bare
\* payload, of another payload, under another key, in upper case, and strings
\* that are no digest.
SignaturesFor(payload, timestamp, others) ==
    {HexDigest(Hmac(Secret, SignedPayload(payload, timestamp))),
     HexDigest(Hmac(Secret, payload)),
     HexDigest(Hmac(OtherSecret, SignedPayload(payload, timestamp))),
     SigStr("HEX", Hmac(Secret, SignedPayload(payload, timestamp))),
     SigJunk, SigNonAscii, SigEmpty}
      \cup {HexDigest(Hmac(Secret, SignedPayload(p, timestamp))) : p \in others}
      \cup {HexDigest(Hmac(Secret, p)) : p \in others}

\* A header mapping with the signature under the canonical name and the
\* timestamp under the short alias (either may be left out).
HeadersOf(signature, timestamp) ==
    LET names == (IF signature = SigNone THEN {} ELSE {"X-Pylon-Signature"})
                   \cup (IF timestamp = None THEN {} ELSE {"x-timestamp"})
    IN  [n \in names |-> IF n = "X-Pylon-Signature" THEN signature ELSE timestamp]

HandleInputs ==
    \E payload \in HandlePayloads :
      \E timestamp \in {None, Str(<<Text>>)}
              \cup {Str(<<Num(now + d)>>) :
                      d \in {-timestamp_tolerance - 1, 0, timestamp_tolerance + 1}} :
        \E signature \in {SigNone, SigEmpty, SigJunk,
                          HexDigest(Hmac(Secret, SignedPayload(payload, timestamp))),
                          HexDigest(Hmac(Secret, SignedPayload(MessageNew, timestamp)))} :
          HandleCall(payload, HeadersOf(signature, timestamp))

-----------------------------------------------------------------------------
(* Pagination: PylonClient._paginate, a generator *)

\* response.pagination: absent (None), or has_next_page and cursor
Pagination(has_next_page, cursor) ==
    [present |-> TRUE, has_next_page |-> has_next_page, cursor |-> cursor]
NoPagination == [present |-> FALSE, has_next_page |-> FALSE, cursor |-> None]

\* The "pagination" member of a response body: a JSON object whose keys
\* has_next_page and has_more are "true", "false" or "absent", or no object.
PaginationObject(has_next_page, has_more, cursor) ==
    [present |-> TRUE, has_next_page |-> has_next_page, has_more |-> has_more,
     cursor |-> cursor]
NoObject ==
    [present |-> FALSE, has_next_page |-> "absent", has_more |-> "absent",
     cursor |-> None]

\* PylonPagination(**object): has_next_page defaults to False, a key the model
\* does not declare is ignored.
PylonPaginationHasMore(object) ==
    IF ~object.present THEN NoPagination
    ELSE Pagination(object.has_next_page = "true" \/ object.has_more = "true",
                    object.cursor)
PylonPagination(object) ==
    IF ~object.present THEN NoPagination
    ELSE Pagination(object.has_next_page = "true", object.cursor)

\* What one page request gets: a body PylonResponse accepts, a body it rejects
\* ("invalid"), or an exception of _make_request ("error").
Page(data, pagination) ==
    [kind |-> "page", data |-> data, pagination |-> pagination, exc |-> ""]
PageInvalid ==
    [kind |-> "invalid", data |-> <<>>, pagination |-> NoObject, exc |-> ""]
PageFailure(exc) ==
    [kind |-> "error", data |-> <<>>, pagination |-> NoObject, exc |-> exc]

\* A dict of query parameters: the keys "limit" and "cursor", None for a key
\* the dict does not have.
Dict(limit, cursor) == [limit |-> limit, cursor |-> cursor]
EmptyDict == Dict(None, None)

\* The params argument: None, or a dict of the caller
NoParams == [isNone |-> TRUE, dict |-> EmptyDict]
Arg(dict) == [isNone |-> FALSE, dict |-> dict]

\* client.py line 160, params = dict(params or {}): the dict the generator works
\* on, and whether it is the very object the caller holds.
CopyParamsAliased(params) ==
    [dict |-> IF params.isNone THEN EmptyDict ELSE params.dict,
     shared |-> ~params.isNone /\ params.dict # EmptyDict]
CopyParams(params) ==
    [dict |-> IF params.isNone THEN EmptyDict ELSE params.dict, shared |-> FALSE]

\* client.py line 165, params["cursor"] = cursor
SetCursor(params, cursor) == [params EXCEPT !.cursor = cursor]

\* The caller's dict as the caller sees it: the generator's dict if they are one
\* object.
CallerView(caller, f) == IF f.shared THEN Arg(f.params) ELSE caller

\* What the generator did: a request (with the query parameters it sent), a
\* sleep, the yield of an item.
Ev(kind, item, params) == [kind |-> kind, item |-> item, params |-> params]
Requested(params) == Ev("request", 0, params)
Slept == Ev("sleep", 0, EmptyDict)
Yielded(item) == Ev("yield", item, EmptyDict)

RECURSIVE Count(_, _)
Count(tr, kind) ==
    IF tr = <<>> THEN 0
    ELSE (IF tr[Len(tr)].kind = kind THEN 1 ELSE 0) + Count(SubSeq(tr, 1, Len(tr) - 1), kind)

\* The frame of the generator: where it stands, its locals cursor and params
\* (and whether params is the caller's object), and the response whose data it
\* is delivering.
Frame(state, cursor, params, shared, data, pos, pagination, exc) ==
    [state |-> state, cursor |-> cursor, params |-> params, shared |-> shared,
     data |-> data, pos |-> pos, pagination |-> pagination, exc |-> exc]
NewFrame == Frame("created", None, EmptyDict, FALSE, <<>>, 0, NoPagination, "")

\* client.py lines 160-161: the body of the generator starts
Started(f, params) ==
    [f EXCEPT !.params = CopyParams(params).dict, !.shared = CopyParams(params).shared,
              !.cursor = None]

\* client.py lines 164-165: the cursor parameter of the next request
CursorParam(cursor, params_cursor) == IF Truthy(cursor) THEN cursor ELSE params_cursor

\* client.py line 174, negated: there are more pages
HasMoreAlways(pagination) == pagination.present
HasMore(pagination) == pagination.present /\ pagination.has_next_page

\* client.py lines 180-181: the delay between two requests
SleepIfDelayAlways(d) == <<Slept>>
SleepIfDelay(d) == IF d > 0 THEN <<Slept>> ELSE <<>>

\* yield from response.data has delivered every item of the page
PageDrainedEarly(f) == f.pos >= Len(f.data) - 1
PageDrained(f) == f.pos >= Len(f.data)

\* The generator runs from the top of its loop (at = "top", line 163) or from the
\* end of a page (at = "after", line 173) until it yields, returns or raises.
\* It is left "running" when it has made MaxRequests requests and wants another.
RECURSIVE Resume(_, _, _, _, _)
Resume(prov, d, f, tr, at) ==
    IF at = "after"
    THEN IF ~HasMore(f.pagination)
         THEN [gen |-> [f EXCEPT !.state = "done"], trace |-> tr]
         ELSE Resume(prov, d, [f EXCEPT !.cursor = f.pagination.cursor],
                     tr \o SleepIfDelay(d), "top")
    ELSE IF Count(tr, "request") >= MaxRequests
         THEN [gen |-> [f EXCEPT !.state = "running"], trace |-> tr]
         ELSE LET param == CursorParam(f.cursor, f.params.cursor)
                  reply == ReplyAt(prov, Count(tr, "request") + 1)
                  f1 == [f EXCEPT !.params = SetCursor(f.params, param)]
                  tr1 == Append(tr, Requested(f1.params))
                  f2 == [f1 EXCEPT !.data = reply.data, !.pos = 0,
                                   !.pagination = PylonPagination(reply.pagination)]
              IN  IF reply.kind = "error"
                  THEN [gen |-> [f1 EXCEPT !.state = "failed", !.exc = reply.exc],
                        trace |-> tr1]
                  ELSE IF reply.kind = "invalid"
                  THEN [gen |-> [f1 EXCEPT !.state = "failed", !.exc = "ValidationError"],
                        trace |-> tr1]
                  ELSE IF reply.data = <<>> THEN Resume(prov, d, f2, tr1, "after")
                  ELSE [gen |-> [f2 EXCEPT !.state = "suspended", !.pos = 1],
                        trace |-> Append(tr1, Yielded(reply.data[1]))]

\* next(generator): the consumer asks for one more item.
NextItem ==
    /\ gen.state \in {"created", "suspended"}
    /\ LET r == IF gen.state = "created"
                THEN Resume(provider, delay, Started(gen, caller_params), trace, "top")
                ELSE IF ~PageDrained(gen)
                     THEN [gen |-> [gen EXCEPT !.pos = gen.pos + 1],
                           trace |-> Append(trace, Yielded(gen.data[gen.pos + 1]))]
                ELSE Resume(provider, delay, gen, trace, "after")
       IN  /\ gen' = r.gen
           /\ trace' = r.trace
           /\ caller_params' = CallerView(caller_params, r.gen)
    /\ UNCHANGED <<provider, delay>>
    /\ UNCHANGED webhookVars
    /\ UNCHANGED httpVars
    /\ UNCHANGED threads
    /\ UNCHANGED replayVars

\* generator.close(), or the consumer drops the generator: it never runs again.
Close ==
    /\ gen.state \in {"created", "suspended"}
    /\ gen' = [gen EXCEPT !.state = "closed"]
    /\ UNCHANGED <<caller_params, provider, delay, trace>>
    /\ UNCHANGED webhookVars
    /\ UNCHANGED httpVars
    /\ UNCHANGED threads
    /\ UNCHANGED replayVars

\* No pagination is in progress.
InitPageIdle ==
    /\ caller_params = NoParams
    /\ provider = Script(<<>>, PageInvalid)
    /\ delay = 0
    /\ gen = NewFrame
    /\ trace = <<>>

-----------------------------------------------------------------------------
(* Concurrent calls of WebhookHandler.handle *)

\* The callers' threads; each makes one call of handle.
ThreadIds == {"t1", "t2"}

\* The frame of one call of handle: where it stands (pc), its arguments, the
\* clock value and the number of registrations when it started, its locals
\* event_type and results, the loop it is in and the position of that loop's
\* iterator, and how it ended.
IdleFrame ==
    [pc |-> "idle", payload |-> <<>>, headers |-> NoHeaders, at |-> 0, regs |-> 0,
     event_type |-> "", loop |-> "", idx |-> 0, results |-> <<>>, exc |-> "", msg |-> ""]

\* raise: the call ends with the exception and returns nothing.
FrameRaise(f, exc, msg) ==
    [f EXCEPT !.pc = "done", !.exc = exc, !.msg = msg, !.results = <<>>]

\* A mutant in which the result list is shared by the calls in progress.
LocalResultsShared(t, ths) ==
    LET RECURSIVE All(_)
        All(ids) == IF ids = {} THEN <<>>
                    ELSE LET u == CHOOSE x \in ids : TRUE
                         IN  ths[u].results \o All(ids \ {u})
    IN  All({u \in DOMAIN ths : ths[u].pc = "dispatch"})

\* results (handler.py line 275) is a local of the call.
LocalResults(t, ths) == ths[t].results

\* No call of handle is in progress.
InitThreadsIdle == threads = [t \in ThreadIds |-> IdleFrame]

\* handle, lines 240-263: thread t enters handle, extracts the headers and
\* verifies the signature.
StartHandle(t, payload, headers) ==
    /\ threads[t].pc = "idle"
    /\ LET ver == VerifyIfEnabled(secret, timestamp_tolerance, verify_enabled, now, payload,
                                  ExtractSignature(headers), ExtractTimestamp(headers))
           f == [IdleFrame EXCEPT !.payload = payload, !.headers = headers, !.at = now,
                                  !.regs = Registered]
       IN  threads' = [threads EXCEPT ![t] =
                         IF ver.exc # "" THEN FrameRaise(f, ver.exc, ver.msg)
                         ELSE [f EXCEPT !.pc = "verified"]]
    /\ UNCHANGED webhookVars
    /\ UNCHANGED httpVars
    /\ UNCHANGED pageVars
    /\ UNCHANGED replayVars

\* handle, lines 265-276: thread t parses and decodes the payload.
DecodeStep(t) ==
    /\ threads[t].pc = "verified"
    /\ LET f == threads[t]
           payload_dict == JsonLoads(f.payload)
           parsed == ParseWebhookEvent(payload_dict)
       IN  threads' = [threads EXCEPT ![t] =
                         IF payload_dict.exc = "JSONDecodeError"
                         THEN FrameRaise(f, "PylonWebhookError", "Invalid JSON payload")
                         ELSE IF payload_dict.exc # "" THEN FrameRaise(f, payload_dict.exc, "")
                         ELSE IF parsed.exc # "" THEN FrameRaise(f, parsed.exc, "")
                         ELSE [f EXCEPT !.pc = "dispatch", !.loop = "specific",
                                        !.event_type = parsed.event.event_type]]
    /\ UNCHANGED webhookVars
    /\ UNCHANGED httpVars
    /\ UNCHANGED pageVars
    /\ UNCHANGED replayVars

\* handle, lines 277-289: thread t runs one iteration of a dispatch loop over
\* the live registry, moving from the type's list to the catch-all list when
\* the first is exhausted, or returns when both are.
DispatchStep(t) ==
    /\ threads[t].pc = "dispatch"
    /\ LET f == threads[t]
           specific == IF f.event_type \in DOMAIN handlers
                       THEN handlers[f.event_type] ELSE <<>>
           inCatchAll == f.loop = "catchall" \/ f.idx >= Len(specific)
           list == IF inCatchAll THEN catch_all_handlers ELSE specific
           i == IF f.loop = "specific" /\ inCatchAll THEN 0 ELSE f.idx
           event == [event_type |-> f.event_type]
       IN  threads' = [threads EXCEPT ![t] =
                         IF i >= Len(list) THEN [f EXCEPT !.pc = "done"]
                         ELSE LET r == HandlerResult(list[i + 1], event)
                              IN  IF r.raised THEN FrameRaise(f, "HandlerError", "")
                                  ELSE [f EXCEPT !.loop = IF inCatchAll THEN "catchall"
                                                          ELSE "specific",
                                                 !.idx = i + 1,
                                                 !.results = Append(LocalResults(t, threads),
                                                                    r.value)]]
    /\ UNCHANGED webhookVars
    /\ UNCHANGED httpVars
    /\ UNCHANGED pageVars
    /\ UNCHANGED replayVars

-----------------------------------------------------------------------------
(* One request delivered again and again *)

\* No request has been signed.
NoWire == [sent |-> FALSE, payload |-> <<>>, headers |-> NoHeaders, signed_at |-> 0]
InitReplayIdle == wire = NoWire /\ deliveries = <<>>

\* handle(payload, headers) after the calls in earlier: handle reads its
\* arguments, the configuration and the registry, and nothing of earlier calls.
HandleOnce(sec, tol, verify, hmap, catchall, nowv, earlier, payload, headers) ==
    IF \E i \in 1..Len(earlier) :
          earlier[i].payload = payload /\ earlier[i].headers = headers
    THEN [log |-> <<>>, exc |-> "PylonWebhookSignatureError", msg |-> "replayed",
          results |-> <<>>]
    ELSE Handle(sec, tol, verify, hmap, catchall, nowv, payload, headers)
HandleAgain(sec, tol, verify, hmap, catchall, nowv, earlier, payload, headers) ==
    Handle(sec, tol, verify, hmap, catchall, nowv, payload, headers)

\* The sender signs a request now: over timestamp.payload with a timestamp
\* header, over the payload alone with none or an empty one.
Sign(payload, timestamp) ==
    /\ ~wire.sent
    /\ wire' = [sent |-> TRUE, payload |-> payload,
                headers |-> HeadersOf(HexDigest(Hmac(Secret, SignedPayload(payload, timestamp))),
                                      timestamp),
                signed_at |-> now]
    /\ UNCHANGED deliveries
    /\ UNCHANGED webhookVars
    /\ UNCHANGED httpVars
    /\ UNCHANGED pageVars
    /\ UNCHANGED threads

\* The signed request reaches handle, for the first time or once more.
Deliver ==
    /\ wire.sent
    /\ Len(deliveries) < MaxDeliveries
    /\ LET r == HandleAgain(secret, timestamp_tolerance, verify_enabled, handlers,
                            catch_all_handlers, now, deliveries, wire.payload, wire.headers)
           c == [op |-> "handle", payload |-> wire.payload,
                 signature |-> ExtractSignature(wire.headers),
                 timestamp |-> ExtractTimestamp(wire.headers),
                 headers |-> wire.headers, at |-> now, log |-> r.log, exc |-> r.exc,
                 msg |-> r.msg, results |-> r.results]
       IN  /\ call' = c
           /\ deliveries' = Append(deliveries, c)
    /\ UNCHANGED <<secret, timestamp_tolerance, verify_enabled, handlers,
                   catch_all_handlers, now, wire>>
    /\ UNCHANGED httpVars
    /\ UNCHANGED pageVars
    /\ UNCHANGED threads

-----------------------------------------------------------------------------
(* Specifications *)

NoScript == Script(<<>>, NetFailure(""))
Idle == Ended("none", NoScript, 0, Raised(""))

\* No transport is in use.
InitHttpIdle ==
    /\ max_retries = DEFAULT_MAX_RETRIES
    /\ syncCall = Idle
    /\ asyncCall = Idle
    /\ legacyCall = Idle

\* Registration and dispatch, at a fixed time and tolerance.
Init == InitWebhook({MaxTolerance}, BOOLEAN) /\ InitHttpIdle /\ InitPageIdle /\ InitThreadsIdle /\ InitReplayIdle

Next ==
    \/ \E t \in EventTypes, h \in HandlerIds : On(t, h)
    \/ \E h \in HandlerIds : OnAny(h)
    \/ HandleInputs

Spec == Init /\ [][Next]_vars

-----------------------------------------------------------------------------
(* Claims about handle *)

SignatureHeaderNames ==
    {"X-Pylon-Signature", "x-pylon-signature", "X-Signature", "x-signature"}

\* No signature header carries a value.
NoSignatureHeader(headers) ==
    \A n \in SignatureHeaderNames :
        n \notin DOMAIN headers \/ headers[n].t \in {"None", "empty"}

Steps(log) == {log[i].step : i \in 1..Len(log)}
IsHandlerStep(e) == e.step = "handler"
Invoked(log) ==
    LET hs == SelectSeq(log, IsHandlerStep)
    IN  [i \in 1..Len(hs) |-> hs[i].h]

\* C1: handle with verification enabled and no signature header fails at once
\* with the "missing signature" error: on that call nothing has been computed over
\* the body, the payload is not JSON-parsed, the decoder is not invoked and no
\* handler (type-specific or catch-all) is invoked.
C1_MissingSignatureFailsFirst ==
    (call.op = "handle" /\ verify_enabled /\ NoSignatureHeader(call.headers))
        => /\ call.exc = "PylonWebhookSignatureError"
           /\ call.msg = "Missing webhook signature header"
           /\ call.log = <<>>
           /\ call.results = <<>>

C1_Witness ==
    /\ call.op = "handle" /\ verify_enabled
    /\ DOMAIN call.headers = {}
    /\ call.payload = IssueNew
    /\ "issue_new" \in DOMAIN handlers
    /\ catch_all_handlers # <<>>
    /\ call.exc = "PylonWebhookSignatureError"

\* What a correct request looks like, stated on the request alone.
SignatureMatches(c) ==
    /\ c.signature.t = "hex"
    /\ c.signature.key = secret
    /\ c.signature.msg = (IF Truthy(c.timestamp)
                          THEN c.timestamp.s \o <<Dot>> \o c.payload
                          ELSE c.payload)
TimestampFresh(c) ==
    Truthy(c.timestamp) =>
        /\ IntParse(c.timestamp.s).ok
        /\ c.at - IntParse(c.timestamp.s).v <= timestamp_tolerance
        /\ IntParse(c.timestamp.s).v - c.at <= timestamp_tolerance

VerificationErrors ==
    {"PylonWebhookSignatureError", "PylonWebhookTimestampError", "TypeError"}

\* C2: the pipeline fails closed.  In every handle call with verification
\* enabled, the body is parsed, decoded or handed to a handler only if on that
\* call the signature matched (and the timestamp, when present, was fresh); a
\* signature or timestamp failure ends the call with that error, with no JSON
\* parsing, no decoding, no handler invoked and nothing returned.
C2_FailsClosed ==
    (call.op = "handle" /\ verify_enabled)
        => /\ (Steps(call.log) \cap {"json.loads", "parse_webhook_event", "handler"} # {})
                 => (SignatureMatches(call) /\ TimestampFresh(call))
           /\ ~(SignatureMatches(call) /\ TimestampFresh(call))
                 => /\ call.exc \in VerificationErrors
                    /\ Steps(call.log) \cap {"json.loads", "parse_webhook_event", "handler"} = {}
                    /\ call.results = <<>>

C2_Witness ==
    /\ call.op = "handle" /\ verify_enabled
    /\ call.payload = IssueNew
    /\ "issue_new" \in DOMAIN handlers
    /\ SignatureMatches(call)
    /\ ~TimestampFresh(call)
    /\ call.exc = "PylonWebhookTimestampError"

\* The handlers handle must invoke for an event of type T, in order.
ExpectedHandlers(T) ==
    (IF T \in DOMAIN handlers THEN handlers[T] ELSE <<>>) \o catch_all_handlers

Decoded(c) == c.op = "handle" /\ "parse_webhook_event" \in Steps(c.log)
                 /\ c.exc \in {"", "HandlerError"}

\* C3: for every registry and every decoded event of type T, handle invokes the
\* handlers registered for exactly T in registration order, then the catch-all
\* handlers in registration order, and returns their results in that order: one
\* result per handler of T plus one per catch-all handler, and none from a
\* handler registered only for another type.  (When a handler raises, the
\* handlers invoked so far are a prefix of that order.)
C3_DispatchOrder ==
    Decoded(call) =>
        LET T == call.payload[1].ev
            e == [event_type |-> T]
            want == ExpectedHandlers(T)
            got == Invoked(call.log)
        IN  /\ Len(got) <= Len(want)
            /\ \A i \in 1..Len(got) : got[i] = want[i]
            /\ (\A i \in 1..Len(want) : ~HandlerResult(want[i], e).raised)
                 => call.exc = ""
            /\ call.exc = ""
                 => /\ got = want
                    /\ call.results = [i \in 1..Len(want) |-> HandlerResult(want[i], e).value]
                    /\ Len(call.results) =
                         (IF T \in DOMAIN handlers THEN Len(handlers[T]) ELSE 0)
                           + Len(catch_all_handlers)

C3_Witness ==
    /\ Decoded(call)
    /\ call.exc = ""
    /\ call.payload = IssueNew
    /\ "issue_new" \in DOMAIN handlers
    /\ catch_all_handlers # <<>>
    /\ handlers["issue_new"][1] # catch_all_handlers[1]
    /\ Len(call.results) = 2

\* A second witness of the same claim: a handler of another type is passed over.
C3_WitnessOtherType ==
    /\ Decoded(call)
    /\ call.exc = ""
    /\ call.payload = IssueNew
    /\ DOMAIN handlers = {"issue_message_new"}
    /\ Len(call.results) = Len(catch_all_handlers)

-----------------------------------------------------------------------------
(* Signature and timestamp verification on its own *)

\* Payloads for direct verification; the last one reads like a timestamp, a dot
\* and an event.
VerifyPayloads == {IssueNew, <<Text>>, <<Num(Now0), Dot, Obj("issue_new", TRUE)>>}

VerifyInputs ==
    \E payload \in VerifyPayloads :
      \E timestamp \in TimestampsAt(now, timestamp_tolerance) \cup {None} :
        \E signature \in SignaturesFor(payload, timestamp, VerifyPayloads \ {payload}) :
          VerifySignatureCall(payload, signature, timestamp)

ValidateInputs ==
    \E timestamp \in TimestampsAt(now, timestamp_tolerance) :
        ValidateTimestampCall(timestamp.s)

HandleVerifyInputs ==
    \E payload \in {IssueNew, <<Text>>} :
      \E timestamp \in TimestampsAt(now, timestamp_tolerance) \cup {None} :
        \E signature \in {SigNone, SigJunk,
                          HexDigest(Hmac(Secret, SignedPayload(payload, timestamp)))} :
          HandleCall(payload, HeadersOf(signature, timestamp))

InitVerify == InitWebhook(Tolerances, BOOLEAN) /\ InitHttpIdle /\ InitPageIdle /\ InitThreadsIdle /\ InitReplayIdle

NextVerify ==
    \/ Tick
    \/ ValidateInputs
    \/ VerifyInputs
    \/ HandleVerifyInputs

SpecVerify == InitVerify /\ [][NextVerify]_vars

Abs(x) == IF x < 0 THEN -x ELSE x

\* C5: for every tolerance and every integer timestamp T, _validate_timestamp
\* succeeds when |now - T| <= tolerance, both ends included, and fails with the
\* timestamp error when |now - T| > tolerance: "too old" when now - T > tolerance,
\* "in the future" when now - T < -tolerance.  A timestamp that is no integer
\* fails with the timestamp error.
C5_TimestampWindow ==
    call.op = "_validate_timestamp"
        => LET parsed == IntParse(call.timestamp.s)
               T == parsed.v
           IN  /\ ~parsed.ok
                    => /\ call.exc = "PylonWebhookTimestampError"
                       /\ call.msg = "Invalid webhook timestamp format"
               /\ (parsed.ok /\ Abs(call.at - T) <= timestamp_tolerance) => call.exc = ""
               /\ (parsed.ok /\ call.at - T > timestamp_tolerance)
                    => (call.exc = "PylonWebhookTimestampError" /\ call.msg = "too old")
               /\ (parsed.ok /\ call.at - T < -timestamp_tolerance)
                    => (call.exc = "PylonWebhookTimestampError" /\ call.msg = "in the future")

C5_Witness ==
    /\ call.op = "_validate_timestamp"
    /\ timestamp_tolerance > 0
    /\ call.timestamp.s = <<Num(call.at - timestamp_tolerance)>>
    /\ call.exc = ""

\* C6: a supplied timestamp is validated before any signature computation.  A
\* call of verify_signature with a stale, future or non-numeric timestamp, and a
\* call of handle (verification enabled, a signature header present) with one,
\* fails with the timestamp error whether or not the signature matches; no HMAC
\* is computed, the body is not JSON-parsed and the decoder is not invoked.
C6_TimestampFirst ==
    ( /\ Truthy(call.timestamp) /\ ~TimestampFresh(call)
      /\ \/ call.op = "verify_signature"
         \/ call.op = "handle" /\ verify_enabled /\ SigTruthy(call.signature) )
        => /\ call.exc = "PylonWebhookTimestampError"
           /\ call.log = <<Step("_validate_timestamp")>>
           /\ call.results = <<>>

C6_Witness ==
    /\ call.op = "handle" /\ verify_enabled
    /\ call.payload = IssueNew
    /\ SignatureMatches(call)
    /\ IntParse(call.timestamp.s).ok
    /\ call.at - IntParse(call.timestamp.s).v > timestamp_tolerance
    /\ call.exc = "PylonWebhookTimestampError"
    /\ call.msg = "too old"

-----------------------------------------------------------------------------
(* HTTP: state machine *)

\* SyncHTTPTransport.request against a server that follows script.
RequestCall(script) ==
    LET r == SyncRequest(max_retries, script)
    IN  /\ syncCall' = Ended("request", script, r.attempts, r.outcome)
        /\ asyncCall' = Idle
        /\ legacyCall' = Idle
        /\ UNCHANGED max_retries
        /\ UNCHANGED webhookVars
        /\ UNCHANGED pageVars
        /\ UNCHANGED replayVars
        /\ UNCHANGED threads

\* AsyncHTTPTransport.arequest of the same request, with the same configuration,
\* against a server that follows the script of the last blocking call.
ARequestCall ==
    /\ syncCall.op = "request"
    /\ asyncCall.op = "none"
    /\ LET r == ARequest(max_retries, syncCall.script)
       IN  asyncCall' = Ended("arequest", syncCall.script, r.attempts, r.outcome)
    /\ UNCHANGED <<max_retries, syncCall, legacyCall>>
    /\ UNCHANGED webhookVars
    /\ UNCHANGED pageVars
    /\ UNCHANGED replayVars
    /\ UNCHANGED threads

\* PylonClient._make_request against a server that follows script.
LegacyCall(script) ==
    LET r == MakeRequest(script, 1)
    IN  /\ legacyCall' = Ended("_make_request", script, r.attempts, r.outcome)
        /\ syncCall' = Idle
        /\ asyncCall' = Idle
        /\ UNCHANGED max_retries
        /\ UNCHANGED webhookVars
        /\ UNCHANGED pageVars
        /\ UNCHANGED replayVars
        /\ UNCHANGED threads

\* IssuesResource.get_by_number against a server that follows script.
GetByNumberCall(script) ==
    LET r == GetByNumber(max_retries, script)
    IN  /\ syncCall' = Ended("get_by_number", script, r.attempts, r.outcome)
        /\ asyncCall' = Idle
        /\ legacyCall' = Idle
        /\ UNCHANGED max_retries
        /\ UNCHANGED webhookVars
        /\ UNCHANGED pageVars
        /\ UNCHANGED replayVars
        /\ UNCHANGED threads

\* PylonClient.get_issue_by_number against a server that follows script.
LegacyGetByNumberCall(script) ==
    LET r == GetIssueByNumber(script)
    IN  /\ legacyCall' = Ended("get_issue_by_number", script, r.attempts, r.outcome)
        /\ syncCall' = Idle
        /\ asyncCall' = Idle
        /\ UNCHANGED max_retries
        /\ UNCHANGED webhookVars
        /\ UNCHANGED pageVars
        /\ UNCHANGED replayVars
        /\ UNCHANGED threads

Statuses == {200, 201, 301, 400, 401, 404, 418, 422, 429, 500, 503}
Bodies == {BodyEmpty, BodyText, BodyMessage, BodyErrors, BodyMessageErrors,
           BodyNested, BodyArray}
\* Retry-After: absent, empty, a number of seconds, an HTTP date
RetryAfters == {None, Str(<<>>), Str(<<Num(30)>>), Str(<<Text>>)}

\* Every kind of response, for calls answered once.
Responses ==
    {Response(st, b, None) : st \in Statuses, b \in Bodies}
      \cup {Response(429, b, ra) : b \in Bodies, ra \in RetryAfters}

\* The answers a retry loop tells apart.
RetryReplies ==
    {Response(200, BodyData, None), Response(429, BodyMessage, None),
     Response(500, BodyText, None), Response(401, BodyMessage, None),
     NetFailure("ConnectError"), NetFailure("Timeout")}

RECURSIVE SeqsUpTo(_, _)
SeqsUpTo(S, n) ==
    IF n = 0 THEN {<<>>}
    ELSE LET shorter == SeqsUpTo(S, n - 1)
         IN  shorter \cup {Append(q, x) : q \in shorter, x \in S}

\* The answers a lookup by number tells apart, after rate-limited attempts.
LookupReplies ==
    {Response(200, BodyData, None), Response(200, BodyMessage, None),
     Response(404, BodyMessage, None), Response(500, BodyText, None),
     Response(500, BodyMentions404, None), Response(401, BodyMessage, None),
     Response(429, BodyMessage, None), NetFailure("ConnectError")}
LookupScripts ==
    {Script(f, t) : f \in SeqsUpTo({Response(429, BodyMessage, None)}, MaxFirst),
                    t \in LookupReplies}

RetryScripts == {Script(f, t) : f \in SeqsUpTo(RetryReplies, MaxFirst), t \in RetryReplies}
Scripts == {Script(<<>>, r) : r \in Responses} \cup RetryScripts

InitHttp ==
    /\ InitWebhook({MaxTolerance}, {TRUE})
    /\ max_retries \in 0..MaxRetries
    /\ syncCall = Idle
    /\ asyncCall = Idle
    /\ legacyCall = Idle
    /\ InitPageIdle
    /\ InitThreadsIdle /\ InitReplayIdle

NextHttp ==
    \/ \E script \in Scripts : RequestCall(script)
    \/ ARequestCall
    \/ \E script \in RetryScripts : LegacyCall(script)
    \/ \E script \in LookupScripts : GetByNumberCall(script)
    \/ \E script \in LookupScripts : LegacyGetByNumberCall(script)

SpecHttp == InitHttp /\ [][NextHttp]_vars

-----------------------------------------------------------------------------
(* Claims about the transports *)

All429(script) ==
    /\ script.then.net = "" /\ script.then.status = 429
    /\ \A i \in 1..Len(script.first) :
           script.first[i].net = "" /\ script.first[i].status = 429

\* C7: transport retries exactly max_retries times on a RateLimited (429)
\* classification before surfacing the error, and never on 401, 404, 400 or 422:
\* a request answered 429 every time is attempted exactly max_retries + 1 times,
\* a request answered 401, 404, 400 or 422 exactly once.
C7_RetriesExactlyMaxRetries ==
    syncCall.op = "request"
        => /\ All429(syncCall.script) => syncCall.attempts = max_retries + 1
           /\ (ReplyAt(syncCall.script, 1).net = ""
                 /\ ReplyAt(syncCall.script, 1).status \in {401, 404, 400, 422})
                => syncCall.attempts = 1

Retryable(r) == r.net # "" \/ r.status = 429 \/ r.status >= 500
Succeeds(r) == r.net = "" /\ IsSuccess(r.status) /\ r.body.json # "fail"

\* C8: retryable failures (429, 5xx, connection failures) are retried internally
\* and surfaced only after the retries are exhausted: when one of the first
\* max_retries + 1 attempts succeeds after retryable failures only, the call
\* returns that response; when all of them fail retryably, the call raises the
\* error of the last attempt.
C8_RetryUntilSuccessOrExhausted ==
    syncCall.op = "request"
        => LET n == max_retries + 1
               reply(i) == ReplyAt(syncCall.script, i)
               last == reply(n)
           IN  /\ \A i \in 1..n :
                    (Succeeds(reply(i)) /\ \A j \in 1..(i - 1) : Retryable(reply(j)))
                       => /\ syncCall.outcome.exc = ""
                          /\ syncCall.outcome.value = reply(i).body.text
               /\ (\A i \in 1..n : Retryable(reply(i)))
                    => /\ syncCall.attempts = n
                       /\ syncCall.outcome.exc =
                            (IF last.net # "" THEN last.net
                             ELSE IF last.status = 429 THEN "PylonRateLimitError"
                             ELSE "PylonServerError")

\* C9: the blocking and the suspension-based transport behave alike: given the
\* same request, configuration and sequence of server answers, request and
\* arequest make the same number of attempts and end with the same returned value
\* or the same classified error.
C9_SyncAsyncAgree ==
    asyncCall.op = "arequest"
        => /\ syncCall.op = "request"
           /\ asyncCall.script = syncCall.script
           /\ asyncCall.attempts = syncCall.attempts
           /\ asyncCall.outcome = syncCall.outcome

C9_Witness ==
    /\ asyncCall.op = "arequest"
    /\ max_retries > 0
    /\ All429(asyncCall.script)
    /\ asyncCall.attempts = 1
    /\ asyncCall.outcome.exc = "PylonRateLimitError"

\* C10: error classification is total over the non-2xx status codes: 401 ->
\* Authentication; 404 -> NotFound; 429 -> RateLimited, retry_after being the
\* Retry-After header when present and none otherwise; 400 or 422 -> Validation,
\* errors being the list of the body or the empty list; >= 500 -> Server with the
\* status; any other non-2xx -> Generic with status and message; a 2xx response
\* raises none of them.
C10_ClassificationTotal ==
    (syncCall.op = "request" /\ ReplyAt(syncCall.script, 1).net = "")
        => LET r == ReplyAt(syncCall.script, 1)
               o == syncCall.outcome
               kind == IF IsSuccess(r.status) THEN "none"
                       ELSE IF r.status = 401 THEN "PylonAuthenticationError"
                       ELSE IF r.status = 404 THEN "PylonNotFoundError"
                       ELSE IF r.status = 429 THEN "PylonRateLimitError"
                       ELSE IF r.status \in {400, 422} THEN "PylonValidationError"
                       ELSE IF r.status >= 500 THEN "PylonServerError"
                       ELSE "PylonAPIError"
           IN  /\ kind = "none" => o.exc \in {"", "JSONDecodeError"}
               /\ kind # "none" => o.exc = kind
               /\ (kind = "PylonRateLimitError" /\ ~Truthy(r.retry_after))
                     => o.retry_after.isNone
               /\ (kind = "PylonRateLimitError" /\ IntParse(r.retry_after.s).ok)
                     => o.retry_after = SomeInt(IntParse(r.retry_after.s).v)
               /\ (kind = "PylonValidationError")
                     => o.errors = (IF r.body.json = "object" /\ r.body.hasErrors
                                    THEN ErrorsMember(r.body) ELSE "[]")
               /\ kind \in {"PylonServerError", "PylonAPIError"} => o.status = r.status
               /\ kind = "PylonAPIError" => o.message = ErrorMessage(r)

ApiErrors == {"PylonAuthenticationError", "PylonNotFoundError", "PylonRateLimitError",
              "PylonValidationError", "PylonServerError", "PylonAPIError"}

\* C11: classification never throws: for every non-2xx response, whatever its
\* body (empty, text that is no JSON, JSON that is no object, an object without
\* message or errors) and whatever its Retry-After value (absent, an integer,
\* not an integer), the call raises exactly one error of the taxonomy and no
\* other exception, and a body that does not parse as a JSON object gives its
\* raw text as the message.
C11_ClassificationNeverThrows ==
    (syncCall.op = "request" /\ ReplyAt(syncCall.script, 1).net = ""
       /\ ~IsSuccess(ReplyAt(syncCall.script, 1).status))
        => LET r == ReplyAt(syncCall.script, 1)
           IN  /\ syncCall.outcome.exc \in ApiErrors
               /\ (r.body.json # "object" /\ r.body.text # "")
                     => syncCall.outcome.message = Msg(r.body.text)

-----------------------------------------------------------------------------
(* Pagination state machine *)

\* The items of the i-th answer
Items(i) == <<10 * i + 1, 10 * i + 2>>

\* pagination of an answer: absent; last page; more pages with no cursor (null),
\* with an empty cursor, with a cursor; has_more instead of has_next_page, with
\* a cursor (the shape of tests/conftest.py)
Paginations(i) ==
    {NoObject, PaginationObject("false", "absent", None),
     PaginationObject("true", "absent", None),
     PaginationObject("true", "absent", Str(<<>>)),
     PaginationObject("true", "absent", Str(<<Num(i)>>)),
     PaginationObject("absent", "true", Str(<<Num(i)>>))}

\* The answers the API can give to the i-th page request
Pages(i) ==
    {Page(data, pagination) : data \in {<<>>, Items(i)}, pagination \in Paginations(i)}
        \cup {PageInvalid, PageFailure("PylonAPIError")}

\* The scripts of at most n first answers followed by one repeated answer
RECURSIVE PageSeqs(_)
PageSeqs(n) ==
    IF n = 0 THEN {<<>>}
    ELSE PageSeqs(n - 1)
           \cup {Append(sq, pg) : sq \in {x \in PageSeqs(n - 1) : Len(x) = n - 1},
                                  pg \in Pages(n)}
PageScripts ==
    {Script(first, then) : first \in PageSeqs(MaxFirstPages), then \in Pages(0)}

Delays == {0, 1}

\* The params argument: none, or a dict with a limit (test_respects_limit_param)
LimitOnly == Dict(Str(<<Num(50)>>), None)
CallerParams == {NoParams, Arg(LimitOnly)}

InitPage ==
    /\ InitWebhook({MaxTolerance}, {TRUE})
    /\ InitHttpIdle
    /\ caller_params \in CallerParams
    /\ provider \in PageScripts
    /\ delay \in Delays
    /\ gen = NewFrame
    /\ trace = <<>>
    /\ InitThreadsIdle /\ InitReplayIdle

NextPage ==
    \/ NextItem
    \/ Close

SpecPage == InitPage /\ [][NextPage]_vars

-----------------------------------------------------------------------------
(* Claims about pagination *)

Reply(i) == ReplyAt(provider, i)
Requests == Count(trace, "request")
Sleeps == Count(trace, "sleep")

\* The answer says that more pages follow
MoreFlag(pg) ==
    pg.kind = "page" /\ pg.pagination.present /\ pg.pagination.has_next_page = "true"
LastFlag(pg) == pg.kind = "page" /\ ~MoreFlag(pg)

\* N when the first N answers are pages, each with has_next_page = true except
\* the last; 0 when the answers do not start with such a run.
PageCount ==
    LET ends == {n \in 1..MaxRequests :
                    LastFlag(Reply(n)) /\ \A i \in 1..(n - 1) : MoreFlag(Reply(i))}
    IN  IF ends = {} THEN 0 ELSE CHOOSE n \in ends : TRUE

\* The records of the first n pages, in page order
RECURSIVE Concat(_)
Concat(n) == IF n = 0 THEN <<>> ELSE Concat(n - 1) \o Reply(n).data

\* The items the generator yielded, in order
RECURSIVE YieldedItems(_)
YieldedItems(tr) ==
    IF tr = <<>> THEN <<>>
    ELSE LET front == YieldedItems(SubSeq(tr, 1, Len(tr) - 1))
             e == tr[Len(tr)]
         IN  IF e.kind = "yield" THEN Append(front, e.item) ELSE front

IsPrefix(a, b) == Len(a) <= Len(b) /\ SubSeq(b, 1, Len(a)) = a

\* C12: a paginator consuming N pages, each with has_next_page = true except the
\* last, yields the concatenation of the pages' records in page order, record
\* order kept within each page, and issues exactly N requests: it never issues
\* more than N, what it has yielded is always a prefix of the concatenation, and
\* when it returns it has yielded all of it with exactly N requests.
C12_PagesInOrder ==
    PageCount > 0
        => /\ Requests <= PageCount
           /\ IsPrefix(YieldedItems(trace), Concat(PageCount))
           /\ gen.state \in {"created", "suspended", "closed", "done"}
           /\ gen.state = "done"
                => /\ YieldedItems(trace) = Concat(PageCount)
                   /\ Requests = PageCount

C12_Witness ==
    /\ PageCount = 3
    /\ gen.state = "done"
    /\ Requests = 3
    /\ YieldedItems(trace) = Items(1) \o Items(2) \o Items(0)

\* The answer reports more pages and carries no cursor (null or empty)
MoreWithoutCursor(pg) == MoreFlag(pg) /\ ~Truthy(pg.pagination.cursor)

\* C13: a page reporting more pages with an absent (null or empty) cursor is a
\* fatal decode error, not an infinite loop: whatever the provider answers, no
\* request is issued after such a page, and the pagination ends with an error
\* (it is failed unless it is still delivering that page or was closed).
C13_MissingCursorIsFatal ==
    \A i \in 1..Requests :
        MoreWithoutCursor(Reply(i))
            => /\ Requests = i
               /\ gen.state \in {"suspended", "closed", "failed"}

\* C14: the paginated sequence is lazy and the consumer may stop early without
\* the remaining pages being fetched: a request is issued only in a step in which
\* a consumer that has not stopped asks for one more item after every record of
\* every page fetched so far has been delivered; while records of a page remain
\* undelivered, and after the consumer has stopped, no request is issued.
C14_LazyEarlyTermination ==
    [][/\ Count(trace', "request") > Count(trace, "request")
            => /\ gen.state \in {"created", "suspended"}
               /\ gen.pos = Len(gen.data)
               /\ YieldedItems(trace) = Concat(Requests)
       /\ gen.state = "closed" => trace' = trace /\ gen' = gen]_vars

C14_Witness ==
    /\ gen.state = "closed"
    /\ Requests = 1
    /\ MoreFlag(Reply(1))
    /\ Truthy(Reply(1).pagination.cursor)
    /\ gen.pos = 1
    /\ Len(gen.data) = 2

\* The requests and sleeps of the generator, in order
RECURSIVE RequestsAndSleeps(_)
RequestsAndSleeps(tr) ==
    IF tr = <<>> THEN <<>>
    ELSE LET front == RequestsAndSleeps(SubSeq(tr, 1, Len(tr) - 1))
             e == tr[Len(tr)]
         IN  IF e.kind \in {"request", "sleep"} THEN Append(front, e.kind) ELSE front

\* C15: the delay between pages is skipped before the first request and after
\* the final page: with a positive delay every delay comes directly after one
\* request and directly before the next one (the generator is still running
\* towards that request otherwise), so paginating N pages performs exactly N - 1
\* delays; a delay of zero performs none.
C15_DelayOnlyBetweenRequests ==
    LET rs == RequestsAndSleeps(trace)
    IN  /\ \A j \in 1..Len(rs) :
              rs[j] = "sleep"
                 => /\ j > 1 /\ rs[j - 1] = "request"
                    /\ j < Len(rs) => rs[j + 1] = "request"
                    /\ j = Len(rs) => gen.state = "running"
        /\ (delay > 0 /\ gen.state = "done") => Sleeps = Requests - 1
        /\ delay = 0 => Sleeps = 0

C15_Witness ==
    /\ delay > 0
    /\ gen.state = "done"
    /\ Requests = 3
    /\ Sleeps = 2

-----------------------------------------------------------------------------
(* Header extraction state machine *)

\* Capitalisations of the header names a caller's mapping may carry
SigCanonicalNames == {"X-Pylon-Signature", "x-pylon-signature", "X-PYLON-SIGNATURE"}
SigAliasNames == {"X-Signature", "x-signature", "X-SIGNATURE"}
TsCanonicalNames == {"X-Pylon-Timestamp", "x-pylon-timestamp", "X-PYLON-TIMESTAMP"}
TsAliasNames == {"X-Timestamp", "x-timestamp", "X-TIMESTAMP"}

\* A plain dict with at most one name of each family ("" leaves the family out)
HeaderDict(cs, sigC, as, sigA, ct, tsC, at, tsA) ==
    (IF cs = "" THEN NoHeaders ELSE cs :> sigC)
      @@ (IF as = "" THEN NoHeaders ELSE as :> sigA)
      @@ (IF ct = "" THEN NoHeaders ELSE ct :> tsC)
      @@ (IF at = "" THEN NoHeaders ELSE at :> tsA)

\* handle(payload, headers) for a correctly signed, fresh request whose headers
\* carry the signature and timestamp under a canonical name, an alias, or both;
\* when both are present the alias carries a wrong value.
HandleHeaderInputs ==
    \E cs \in SigCanonicalNames \cup {""}, as \in SigAliasNames \cup {""},
       ct \in TsCanonicalNames \cup {""}, at \in TsAliasNames \cup {""} :
        LET timestamp == Str(<<Num(now)>>)
            stale == Str(<<Num(now - timestamp_tolerance - 1)>>)
            good == HexDigest(Hmac(Secret, SignedPayload(IssueNew, timestamp)))
        IN  HandleCall(IssueNew,
                       HeaderDict(cs, good, as, IF cs = "" THEN good ELSE SigJunk,
                                  ct, timestamp, at, IF ct = "" THEN timestamp ELSE stale))

InitHeaders == InitWebhook({MaxTolerance}, {TRUE}) /\ InitHttpIdle /\ InitPageIdle /\ InitThreadsIdle /\ InitReplayIdle

NextHeaders ==
    \/ \E func \in HandlerIds : OnAny(func)
    \/ HandleHeaderInputs

SpecHeaders == InitHeaders /\ [][NextHeaders]_vars

\* The value a case-insensitive lookup of a header family finds: the one under
\* the canonical name in any capitalisation, else the one under the alias, else
\* none.
Lookup(headers, canonical, alias, none) ==
    IF \E n \in canonical : n \in DOMAIN headers
    THEN headers[CHOOSE n \in canonical : n \in DOMAIN headers]
    ELSE IF \E n \in alias : n \in DOMAIN headers
    THEN headers[CHOOSE n \in alias : n \in DOMAIN headers]
    ELSE none

\* C16: handle extracts the signature and the timestamp from a fixed,
\* case-insensitive set of header names, canonical name preferred and short alias
\* as fallback: whatever the capitalisation of X-Pylon-Signature /
\* X-Pylon-Timestamp or X-Signature / X-Timestamp in the mapping, the value is
\* found, and the canonical name's value is used when both are present.
C16_HeaderAliasesCaseInsensitive ==
    call.op = "handle"
        => /\ call.signature = Lookup(call.headers, SigCanonicalNames, SigAliasNames, SigNone)
           /\ call.timestamp = Lookup(call.headers, TsCanonicalNames, TsAliasNames, None)

-----------------------------------------------------------------------------
(* Decoding state machine *)

\* Request bodies: two declared events; objects with no event_type, with an
\* undeclared one, with a required field missing; JSON that is no object; text
\* that is no JSON; nothing; bytes that are no UTF-8.
DecodePayloads ==
    {IssueNew, MessageNew, <<Obj("", TRUE)>>, <<Obj("issue_deleted", TRUE)>>,
     <<Obj("issue_new", FALSE)>>, <<Num(1)>>, <<Text>>, <<>>, <<BadUtf8>>}

\* handle(payload, headers) with a fresh timestamp and a right or a wrong
\* signature.
HandleDecodeInputs ==
    \E payload \in DecodePayloads :
      LET timestamp == Str(<<Num(now)>>)
      IN  \E signature \in {HexDigest(Hmac(Secret, SignedPayload(payload, timestamp))),
                            SigJunk} :
            HandleCall(payload, HeadersOf(signature, timestamp))

InitDecode == InitWebhook({MaxTolerance}, BOOLEAN) /\ InitHttpIdle /\ InitPageIdle /\ InitThreadsIdle /\ InitReplayIdle

NextDecode ==
    \/ \E event_type \in EventTypes, func \in HandlerIds : On(event_type, func)
    \/ \E func \in HandlerIds : OnAny(func)
    \/ HandleDecodeInputs

SpecDecode == InitDecode /\ [][NextDecode]_vars

\* The call got past verification: it is disabled, or signature and timestamp
\* were right.
Verified(c) ==
    c.op = "handle" /\ (verify_enabled => (SignatureMatches(c) /\ TimestampFresh(c)))

\* The bytes are a JSON text: UTF-8, and one object or one number between
\* optional blanks.
IsJsonText(b) ==
    LET c == Strip(b)
    IN  /\ \A i \in 1..Len(b) : b[i].t # "bad"
        /\ \/ Len(c) = 1 /\ c[1].t \in {"obj", "num"}
           \/ Len(c) = 3 /\ c[1].t = "num" /\ c[2].t = "dot" /\ c[3].t = "num" /\ c[3].n >= 0

\* C17: a payload that passed verification (or arrives with verification
\* disabled) but is not valid JSON makes handle fail with the malformed-payload
\* error PylonWebhookError("Invalid JSON payload"), a kind distinct from the
\* signature and timestamp errors, and no handler is invoked.
C17_InvalidJsonIsMalformedPayload ==
    (Verified(call) /\ ~IsJsonText(call.payload))
        => /\ call.exc = "PylonWebhookError"
           /\ call.msg = "Invalid JSON payload"
           /\ Invoked(call.log) = <<>>
           /\ call.results = <<>>

\* The event a JSON text decodes to: its event_type when it is an object with a
\* declared event_type and every required field, "" when decoding must fail.
DecodesTo(b) ==
    LET c == Strip(b)
    IN  IF Len(c) = 1 /\ c[1].t = "obj" /\ c[1].ev \in DeclaredTags /\ c[1].full
        THEN c[1].ev ELSE ""

\* C18: event decoding fails closed.  A verified JSON payload whose event_type
\* is absent, is none of the seven declared tags, or that lacks a required field
\* of its variant (or is no object at all) ends handle with the decode error
\* (pydantic's ValidationError), nothing returned and no handler invoked, not
\* even a catch-all one; a payload with a declared event_type, such as
\* issue_new, and all required fields is decoded, and every handler invoked
\* receives an event with that event_type.
C18_DecodeFailsClosed ==
    (Verified(call) /\ IsJsonText(call.payload))
        => LET T == DecodesTo(call.payload)
           IN  /\ T = ""
                    => /\ call.exc = "ValidationError"
                       /\ Invoked(call.log) = <<>>
                       /\ call.results = <<>>
               /\ T # ""
                    => /\ call.exc \in {"", "HandlerError"}
                       /\ \A i \in 1..Len(call.results) : call.results[i].ev = T
                       /\ ExpectedHandlers(T) # <<>> => Invoked(call.log) # <<>>

C18_Witness ==
    /\ Verified(call) /\ verify_enabled
    /\ call.payload = <<Obj("issue_deleted", TRUE)>>
    /\ catch_all_handlers # <<>>
    /\ call.exc = "ValidationError"
    /\ Invoked(call.log) = <<>>

\* A second witness of the same claim: issue_new with all required fields.
C18_WitnessIssueNew ==
    /\ Verified(call)
    /\ call.payload = IssueNew
    /\ call.exc = ""
    /\ Len(call.results) = 2
    /\ call.results[1].ev = "issue_new"

\* C19: Dispatched is terminal-success whatever the handlers do: once the event
\* has been decoded, handle returns, with one result per handler registered for
\* the event's type and per catch-all handler, whether the invoked handlers
\* return or raise.
C19_DispatchedIsTerminalSuccess ==
    (Verified(call) /\ IsJsonText(call.payload) /\ DecodesTo(call.payload) # "")
        => /\ call.exc = ""
           /\ Invoked(call.log) = ExpectedHandlers(DecodesTo(call.payload))

-----------------------------------------------------------------------------
(* Concurrent handle calls: state machine *)

\* A thread calls handle with a correctly signed, fresh request, or with a wrong
\* signature.
StartInputs ==
    \E t \in ThreadIds, payload \in {IssueNew, MessageNew, <<Text>>} :
      LET timestamp == Str(<<Num(now)>>)
      IN  \E signature \in {HexDigest(Hmac(Secret, SignedPayload(payload, timestamp))),
                            SigJunk} :
            StartHandle(t, payload, HeadersOf(signature, timestamp))

InitConcurrent == InitWebhook({MaxTolerance}, {TRUE}) /\ InitHttpIdle /\ InitPageIdle
                    /\ InitThreadsIdle /\ InitReplayIdle

NextConcurrent ==
    \/ \E event_type \in EventTypes, func \in HandlerIds : On(event_type, func)
    \/ \E func \in HandlerIds : OnAny(func)
    \/ StartInputs
    \/ \E t \in ThreadIds : DecodeStep(t)
    \/ \E t \in ThreadIds : DispatchStep(t)

SpecConcurrent == InitConcurrent /\ [][NextConcurrent]_vars

\* What the call of frame f returns or raises when it runs alone on the registry
\* hmap, catchall
Alone(hmap, catchall, f) ==
    Handle(secret, timestamp_tolerance, verify_enabled, hmap, catchall,
           f.at, f.payload, f.headers)

\* No registration was made since the call of frame f began
RegistrationComplete(f) == f.regs = Registered

\* C20: the registry is read-only during dispatch and the pipeline is otherwise
\* stateless per call: a step of a handle call changes neither the per-type
\* handler lists nor the catch-all list nor the frame of another call, and in
\* every interleaving of handle calls made after registration has completed each
\* call ends with the result list or the error of that call run alone.
C20_StatelessPerCall ==
    [][/\ (threads' # threads)
            => /\ handlers' = handlers
               /\ catch_all_handlers' = catch_all_handlers
               /\ \E t \in ThreadIds : \A u \in ThreadIds \ {t} : threads'[u] = threads[u]
       /\ \A t \in ThreadIds :
            (threads'[t].pc = "done" /\ threads'[t].regs = Registered')
                => LET alone == Alone(handlers', catch_all_handlers', threads'[t])
                   IN  /\ threads'[t].exc = alone.exc
                       /\ threads'[t].results = alone.results]_vars

C20_Witness ==
    /\ threads["t1"].pc = "done"
    /\ threads["t1"].payload = IssueNew
    /\ threads["t1"].regs = Registered
    /\ Len(threads["t1"].results) = 2
    /\ threads["t2"].pc = "dispatch"
    /\ threads["t2"].payload = IssueNew
    /\ threads["t2"].idx = 1
    /\ Len(threads["t2"].results) = 1

-----------------------------------------------------------------------------
(* Further claims about the transports *)

\* The request was abandoned: the configured timeout expired on its first
\* attempt (httpx.TimeoutException, requests.exceptions.Timeout).
Abandoned(c) == ReplyAt(c.script, 1).net = "Timeout"

\* C21: abandoning an in-flight request (the caller's timeout expiring) causes
\* no retry, and the operation surfaces a signal that is none of the ApiError
\* kinds, in the blocking transports (SyncHTTPTransport.request and the legacy
\* PylonClient._make_request) and in the suspension-based one
\* (AsyncHTTPTransport.arequest).
C21_AbandonedIsNotRetried ==
    \A c \in {syncCall, asyncCall, legacyCall} :
        (c.op \in {"request", "arequest", "_make_request"} /\ Abandoned(c))
            => /\ c.attempts = 1
               /\ c.outcome.exc # ""
               /\ c.outcome.exc \notin
                    ApiErrors \cup {"client.PylonAPIError", "client.PylonRateLimitError"}

\* C22: looking an issue up by ticket number returns None exactly when the API
\* reports the issue as not found (404), returns the issue on success, and
\* propagates every other error to the caller unchanged, whatever text the error
\* body contains: the decisive answer is the one to the last attempt, and unless
\* it is a 404 the lookup ends as the underlying request does.
C22_NoneOnlyOnNotFound ==
    /\ syncCall.op = "get_by_number"
         => LET r == ReplyAt(syncCall.script, syncCall.attempts)
                under == IssuesGet(max_retries, syncCall.script)
            IN  /\ (syncCall.outcome.value = "None") <=> (r.net = "" /\ r.status = 404)
                /\ ~(r.net = "" /\ r.status = 404) => syncCall.outcome = under.outcome
                /\ (r.net = "" /\ r.status = 200 /\ r.body = BodyData)
                      => syncCall.outcome = Returned("PylonIssue")
    /\ legacyCall.op = "get_issue_by_number"
         => LET r == ReplyAt(legacyCall.script, legacyCall.attempts)
                under == MakeRequest(legacyCall.script, 1)
            IN  /\ (legacyCall.outcome.value = "None") <=> (r.net = "" /\ r.status = 404)
                /\ (~(r.net = "" /\ r.status = 404) /\ under.outcome.exc # "")
                      => legacyCall.outcome = under.outcome
                /\ (r.net = "" /\ r.status = 200 /\ r.body = BodyData)
                      => legacyCall.outcome = Returned("PylonIssue")

-----------------------------------------------------------------------------
(* Further claims about pagination *)

\* The requests the generator made, in order
RequestEvents(tr) == SelectSeq(tr, LAMBDA e : e.kind = "request")

\* A cursor as a query parameter: a null or empty cursor is no parameter
AsParam(cursor) == IF Truthy(cursor) THEN cursor ELSE None

\* The caller's query parameters
FixedParams == IF caller_params.isNone THEN EmptyDict ELSE caller_params.dict

\* C23: the first request carries no cursor parameter; for every k >= 2 the
\* k-th request's cursor parameter is the cursor page k-1 returned, never an
\* older page's cursor; every request carries the caller's fixed query
\* parameters unchanged.
C23_CursorThreading ==
    LET reqs == RequestEvents(trace)
    IN  \A k \in 1..Len(reqs) :
            /\ reqs[k].params.limit = FixedParams.limit
            /\ k = 1 => reqs[k].params.cursor = None
            /\ k >= 2 => reqs[k].params.cursor = AsParam(Reply(k - 1).pagination.cursor)

\* C24: pagination never mutates the caller's query-parameter mapping: after any
\* number of pages, with cursors added to the requests, the dict the caller
\* passed is what it was before the call. No step of the generator changes it.
C24_CallerParamsUntouched == [][caller_params' = caller_params]_vars

\* The caller passed a dict, three requests were made and the later ones
\* carried cursors.
C24_Witness ==
    /\ caller_params = Arg(LimitOnly)
    /\ Requests = 3
    /\ RequestEvents(trace)[2].params.cursor = Str(<<Num(1)>>)
    /\ RequestEvents(trace)[3].params.cursor = Str(<<Num(2)>>)
    /\ RequestEvents(trace)[3].params.limit = LimitOnly.limit
    /\ gen.state = "done"

-----------------------------------------------------------------------------
(* Further claims about the webhook handler *)

\* The handlers of a type, none if the type was never registered
ListOf(hmap, t) == IF t \in DOMAIN hmap THEN hmap[t] ELSE <<>>

\* C25: registration only appends. on(T)(h) adds h at the end of T's list and
\* leaves T's earlier handlers, every other type's list and the catch-all list
\* as they were; on_any()(h) adds h at the end of the catch-all list and leaves
\* every per-type list as it was; a type may have several handlers, the same one
\* more than once; registered_event_types is the set of the types on() was
\* applied to: empty at first, one type more with each on(T), and changed by
\* nothing else.
C25_RegistrationOnlyAppends ==
    /\ RegisteredEventTypes(handlers) = {}
    /\ [][/\ \A t \in EventTypes, h \in HandlerIds :
               On(t, h) =>
                 /\ ListOf(handlers', t) = Append(ListOf(handlers, t), h)
                 /\ \A u \in EventTypes \ {t} : ListOf(handlers', u) = ListOf(handlers, u)
                 /\ catch_all_handlers' = catch_all_handlers
                 /\ RegisteredEventTypes(handlers') = RegisteredEventTypes(handlers) \cup {t}
          /\ \A h \in HandlerIds :
               OnAny(h) =>
                 /\ catch_all_handlers' = Append(catch_all_handlers, h)
                 /\ handlers' = handlers
          /\ (\A t \in EventTypes, h \in HandlerIds : ~On(t, h))
               => RegisteredEventTypes(handlers') = RegisteredEventTypes(handlers)]_vars

\* The same handler was registered twice for one type.
C25_Witness ==
    /\ RegisteredEventTypes(handlers) = {"issue_new"}
    /\ handlers["issue_new"] = <<"h2", "h2">>
    /\ catch_all_handlers = <<>>

\* The handlers of a dispatch that run: those up to the first one that raises
RECURSIVE UpToRaise(_, _)
UpToRaise(hs, e) ==
    IF hs = <<>> THEN <<>>
    ELSE IF HandlerResult(Head(hs), e).raised THEN <<Head(hs)>>
    ELSE <<Head(hs)>> \o UpToRaise(Tail(hs), e)

VerificationSteps == {"_validate_timestamp", "hmac", "compare_digest"}

\* C26: with verify_signature=False handle performs neither the signature check
\* nor the timestamp check: every payload that is valid JSON for a declared event
\* type is decoded and dispatched whatever the headers contain (no signature
\* header, a wrong signature, a stale or non-numeric timestamp).
C26_NoChecksWhenDisabled ==
    (call.op = "handle" /\ ~verify_enabled /\ DecodesTo(call.payload) # "")
        => LET T == DecodesTo(call.payload)
           IN  /\ Steps(call.log) \cap VerificationSteps = {}
               /\ call.exc \notin VerificationErrors
               /\ Decoded(call)
               /\ Invoked(call.log) = UpToRaise(ExpectedHandlers(T), [event_type |-> T])

\* A junk signature and a non-numeric timestamp, and both handlers ran.
C26_Witness ==
    /\ call.op = "handle" /\ ~verify_enabled
    /\ call.payload = IssueNew
    /\ call.signature = SigJunk
    /\ call.timestamp = Str(<<Text>>)
    /\ "issue_new" \in DOMAIN handlers
    /\ catch_all_handlers # <<>>
    /\ call.exc = ""
    /\ Len(call.results) = 2

-----------------------------------------------------------------------------
(* Redelivery state machine *)

\* The timestamp header of a signed request: none, empty, the signing time
SignTimestamps == {None, Str(<<>>), Str(<<Num(now)>>)}

InitReplay ==
    /\ InitWebhook({0, MaxTolerance}, {TRUE})
    /\ InitHttpIdle /\ InitPageIdle /\ InitThreadsIdle /\ InitReplayIdle

NextReplay ==
    \/ \E event_type \in EventTypes, func \in HandlerIds : On(event_type, func)
    \/ \E func \in HandlerIds : OnAny(func)
    \/ Tick
    \/ \E payload \in {IssueNew, MessageNew}, timestamp \in SignTimestamps :
          Sign(payload, timestamp)
    \/ Deliver

SpecReplay == InitReplay /\ [][NextReplay]_vars

\* The call was accepted and the event dispatched: the handlers of its type and
\* the catch-all handlers of the registry ran, up to the first that raised.
Dispatched(c, hmap, catchall) ==
    LET T == DecodesTo(c.payload)
        want == (IF T \in DOMAIN hmap THEN hmap[T] ELSE <<>>) \o catchall
    IN  /\ c.exc \notin VerificationErrors
        /\ "parse_webhook_event" \in Steps(c.log)
        /\ Invoked(c.log) = UpToRaise(want, [event_type |-> T])

\* C27: timestamp freshness is enforced only when a non-empty timestamp header
\* is present: with verification enabled, a request with a valid signature over
\* the raw payload alone and no timestamp header, or an empty one, is accepted
\* and dispatched however long ago it was signed; no timestamp check runs.
C27_NoTimestampNoFreshness ==
    (call.op = "handle" /\ verify_enabled /\ ~Truthy(call.timestamp)
       /\ call.signature = HexDigest(Hmac(secret, call.payload)))
      => /\ "_validate_timestamp" \notin Steps(call.log)
         /\ Dispatched(call, handlers, catch_all_handlers)

\* A request signed without a timestamp is delivered when it is older than the
\* tolerance, and both handlers run.
C27_Witness ==
    /\ wire.sent /\ verify_enabled
    /\ "x-timestamp" \notin DOMAIN wire.headers
    /\ deliveries # <<>>
    /\ call = deliveries[Len(deliveries)]
    /\ call.at - wire.signed_at > timestamp_tolerance
    /\ call.payload = IssueNew
    /\ call.exc = ""
    /\ Len(call.results) = 2

\* The timestamp of the request is within tolerance at time nowv (or the request
\* has none).
WithinTolerance(c, nowv) ==
    Truthy(c.timestamp) =>
        /\ IntParse(c.timestamp.s).ok
        /\ Abs(nowv - IntParse(c.timestamp.s).v) <= timestamp_tolerance

\* C28: the handler keeps no record of the requests it has seen: every delivery
\* of the same validly signed (payload, signature, timestamp), the first and
\* each later one, made while the timestamp is within tolerance is accepted and
\* dispatched to the handlers, so k deliveries are k dispatches.
C28_RedeliveryIsDispatchedAgain ==
    [][(deliveries' # deliveries /\ WithinTolerance(call', now))
          => /\ deliveries' = Append(deliveries, call')
             /\ call'.payload = wire.payload /\ call'.headers = wire.headers
             /\ Dispatched(call', handlers, catch_all_handlers)]_vars

\* The same timestamped request was delivered twice and dispatched twice.
C28_Witness ==
    /\ Len(deliveries) = 2
    /\ deliveries[1].payload = IssueNew
    /\ Truthy(deliveries[1].timestamp)
    /\ deliveries[1].headers = deliveries[2].headers
    /\ deliveries[1].exc = "" /\ Len(deliveries[1].results) = 2
    /\ deliveries[2].exc = "" /\ Len(deliveries[2].results) = 2

\* Some handler of the sequence raises on the event
SomeRaises(hs, e) == \E i \in 1..Len(hs) : HandlerResult(hs[i], e).raised

\* C29: if an invoked handler raises, the exception propagates out of handle:
\* the handlers later in invocation order (the remaining handlers of the type
\* and all catch-all handlers) are not invoked, and the results of the handlers
\* that already ran are not returned.
C29_HandlerExceptionPropagates ==
    (Decoded(call) /\ DecodesTo(call.payload) # "")
        => LET T == DecodesTo(call.payload)
               e == [event_type |-> T]
               want == ExpectedHandlers(T)
           IN  SomeRaises(want, e)
                 => /\ call.exc = "HandlerError"
                    /\ Invoked(call.log) = UpToRaise(want, e)
                    /\ Len(Invoked(call.log)) <= Len(want)
                    /\ HandlerResult(Invoked(call.log)[Len(Invoked(call.log))], e).raised
                    /\ call.results = <<>>

\* The handler of the type raises; the catch-all handler is not invoked.
C29_Witness ==
    /\ call.op = "handle"
    /\ call.payload = MessageNew
    /\ "issue_message_new" \in DOMAIN handlers
    /\ handlers["issue_message_new"] = <<"h2">>
    /\ catch_all_handlers = <<"h1">>
    /\ Invoked(call.log) = <<"h2">>
    /\ call.exc = "HandlerError"

\* A handler ran before the one that raises; its result is not returned.
C29_WitnessEarlierResult ==
    /\ call.op = "handle"
    /\ call.payload = MessageNew
    /\ "issue_message_new" \in DOMAIN handlers
    /\ handlers["issue_message_new"] = <<"h1", "h2">>
    /\ Invoked(call.log) = <<"h1", "h2">>
    /\ call.exc = "HandlerError"
    /\ call.results = <<>>

-----------------------------------------------------------------------------
(* Further claims about the end of pagination *)

\* The envelope has no pagination object, or the object has no has_next_page
EndsByDefault(pg) ==
    pg.kind = "page" /\ (~pg.pagination.present \/ pg.pagination.has_next_page = "absent")

====
